---- MODULE Spec2Model ----
(***************************************************************************)
(* Verification model of kiro-api: the credential plane (TokenManager,     *)
(* AccountService), the proxy orchestrator (api_proxy, server) and the     *)
(* stream translator (StreamHandler).                                      *)
(*                                                                         *)
(* Time is counted in minutes.  Access and refresh tokens are numbers      *)
(* handed out by the OIDC endpoint; 0 stands for the empty string.         *)
(***************************************************************************)
EXTENDS Integers, Sequences, FiniteSets, TLC

\* ------------------------------------------------------------------------
\* Bounds and program constants
\* ------------------------------------------------------------------------
MaxTime == 1

BUFFER_MINUTES == 5

DEFAULT_EXPIRES_IN == 60

NoExpiry == -1

Accounts == {"A", "B"}

\* the account that inbound requests and admin actions are bound to
Served == {"A"}

Tasks == {"t1", "t2"}

\* tasks are interchangeable: they arrive in the order of their numbers
TaskNo(t) == CASE t \in {"t1", "c1"} -> 1 [] t \in {"t2", "c2"} -> 2 [] OTHER -> 3

Kinds == {"proxy", "refresh", "test"}

Callers == {"c1", "c2", "c3"}

ExpiresIns == {2, DEFAULT_EXPIRES_IN}

InitExpiries == {NoExpiry, 6}

AuthStatuses == {401, 403}

UpstreamStatuses == {200, 401, 403, 500}

NoArn == "none"

VARIABLES tokens, locks, profile_arns, now, nextTok, task,
          sh, spc, fed, nev, ntool,
          accounts,
          pin, data, offset, events, ppc, response, turns,
          breq, bout, bpc,
          files, wfile, seen, nextVer

tmvars == <<tokens, locks, profile_arns, now, nextTok, task>>

svars == <<sh, spc, fed, nev, ntool>>

\* accounts.json of the account store
stvars == <<accounts>>

\* one call of parse_binary_events: its input (pin: the frames and the tail
\* that data was built from), its loop variables, how it ended, what
\* collect_full_response made of its events, and the number of turns its
\* loop has taken
pvars == <<pin, data, offset, events, ppc, response, turns>>

\* one call of build_codewhisperer_request: its arguments, its result and
\* whether it has run
bvars == <<breq, bout, bpc>>

\* the data files on disk, the file the process is writing, what the last
\* reader found, and the number of the next content to be written
fvars == <<files, wfile, seen, nextVer>>

vars == <<tmvars, svars, stvars, pvars, bvars, fvars>>

SetMin(S) == CHOOSE x \in S : \A y \in S : x <= y

SetMax(S) == CHOOSE x \in S : \A y \in S : x >= y

\* ------------------------------------------------------------------------
\* Token blobs
\* ------------------------------------------------------------------------
NoToken == [present |-> FALSE, access |-> 0, refresh |-> 0, exp |-> NoExpiry, creds |-> FALSE]

IsExpiredSwapped(exp, t) ==
  IF exp = NoExpiry THEN TRUE ELSE (t - exp) < BUFFER_MINUTES

\* TokenData.is_expired / AccountService._is_token_expired
IsExpired(exp, t) ==
  IF exp = NoExpiry THEN TRUE ELSE (exp - t) < BUFFER_MINUTES

\* A task is one inbound request (kind proxy, refresh, test) or one direct
\* caller of get_token_by_name (kind get).  waited, posted, conc and ret
\* describe its current or last get_token_by_name call: whether it found
\* the lock taken, whether it issued the OIDC POST, whether it was called
\* before any forced call on the account had returned, and the access token
\* it returned (0: none); at is the time at which a direct call returned.
\* A streaming request (kind stream) also has its httpx client (none, open,
\* closed), the upstream responses it opened (open, closed) and the number
\* of `error` SSE records that handle_streaming_request_by_name yielded.
IdleTask == [kind |-> "proxy", acct |-> "A", pc |-> "idle", site |-> "first",
             force |-> FALSE, tok |-> 0, local |-> NoToken, posts |-> <<>>,
             waited |-> FALSE, posted |-> FALSE, conc |-> FALSE, ret |-> 0,
             at |-> 0, http |-> 0, body |-> "none",
             client |-> "none", resps |-> <<>>, errs |-> 0]

All == Tasks \cup Callers

TMInit ==
  /\ tokens \in [Accounts -> {[present |-> TRUE, access |-> 1, refresh |-> 1, exp |-> e, creds |-> TRUE] :
                               e \in InitExpiries}]
  /\ locks = [a \in Accounts |-> "free"]
  /\ profile_arns = [a \in Accounts |-> NoArn]
  /\ now = 0
  /\ nextTok = 2
  /\ task = [t \in All |-> IdleTask]

\* ------------------------------------------------------------------------
\* TokenManager.get_token_by_name and the proxy orchestrator
\* ------------------------------------------------------------------------
\* OIDC refresh POSTs of account a that are awaiting their response
InFlight(a) == {t \in All : task[t].acct = a /\ task[t].pc \in {"oidc", "admin_oidc"}}

\* forced calls on account a that have already left get_token_by_name
ForcedOver(a) ==
  {u \in All : task[u].acct = a /\ task[u].force /\ task[u].pc \notin {"lock_wait", "oidc"}}

\* the task enters `async with self._get_lock(account_name)`
GetCall(r, site, force) ==
  [r EXCEPT !.pc = "lock_wait", !.site = site, !.force = force,
            !.waited = locks[r.acct] # "free", !.posted = FALSE,
            !.conc = ForcedOver(r.acct) = {}, !.ret = 0]

\* `finally: await response.aclose() ... await client.aclose()`
CloseAll(r) ==
  [r EXCEPT !.resps = [i \in 1..Len(r.resps) |-> "closed"],
            !.client = IF @ = "open" THEN "closed" ELSE @]

YieldErrorReraise(r) == [r EXCEPT !.pc = "done", !.http = 200, !.body = "exception"]

\* handle_streaming_request_by_name: `except Exception` yields one `error`
\* SSE record and the generator ends
YieldError(r) ==
  [r EXCEPT !.pc = "done", !.http = 200, !.body = "error_event", !.errs = @ + 1]

\* server.py: an exception of the handler becomes HTTP 500; test_account
\* catches it and reports a failed test.  In a streaming request,
\* proxy_request_streaming_by_name closes the client it created
\* (`except Exception: await client.aclose(); raise`) and the generator
\* yields an `error` record instead of raising.
Fail(r) ==
  IF r.kind = "stream" THEN YieldError(CloseAll(r))
  ELSE
  [r EXCEPT !.pc = "done",
            !.http = IF r.kind = "test" THEN 200 ELSE 500,
            !.body = "exception"]

\* handle_non_streaming_request_by_name returns a dict for every upstream
\* status and server.py wraps it into JSONResponse (HTTP 200).  In a
\* streaming request the response has been opened: a status other than 200
\* gives one `error` record and the finally block, 200 hands the response to
\* the stream translator.
Finish(r, st) ==
  IF r.kind = "stream"
  THEN LET q == [r EXCEPT !.resps = Append(@, "open")] IN
       IF st = 200 THEN [q EXCEPT !.pc = "connected"] ELSE YieldError(CloseAll(q))
  ELSE
  [r EXCEPT !.pc = "done", !.http = 200,
            !.body = IF st = 200 THEN "message" ELSE "error"]

\* the upstream POST with the request built for the ARN (the builder
\* itself is build_codewhisperer_request below); a streaming request
\* creates its httpx.AsyncClient before the first POST
SendPost(r, pc, bearer, arn) ==
  [r EXCEPT !.pc = pc, !.tok = bearer,
            !.posts = Append(@, [bearer |-> bearer, arn |-> arn, status |-> 0]),
            !.client = IF r.kind = "stream" THEN "open" ELSE @]

\* `await response.aclose()` before the forced refresh of a streaming request
CloseFirstResponse(r) ==
  IF r.kind = "stream" THEN [r EXCEPT !.resps = Append(@, "closed")] ELSE r

ArnCachedNever(a) == FALSE

\* fetch_profile_arn_by_name: `if account_name in self._profile_arns`
ArnCached(a) == profile_arns[a] # NoArn

\* what the caller of get_token_by_name does with the returned access token
AfterToken(r0, acc) ==
  LET r == [r0 EXCEPT !.ret = acc, !.at = IF r0.kind = "get" THEN now ELSE @] IN
  CASE r.kind = "get" -> [r EXCEPT !.pc = "done", !.tok = acc]
    [] r.kind # "get" /\ r.site = "first" ->
         IF ArnCached(r.acct)
         THEN SendPost(r, "post1", acc, profile_arns[r.acct])
         ELSE [GetCall([r EXCEPT !.tok = acc], "arn", FALSE) EXCEPT !.waited = FALSE]
    [] r.kind # "get" /\ r.site = "arn" -> [r EXCEPT !.pc = "arn_wait"]
    [] OTHER -> SendPost(r, "post2", acc, r.posts[1].arn)

\* a direct call get_token_by_name(a, force)
GetToken(t, a, force) ==
  /\ task[t].pc = "idle"
  /\ \A u \in Callers : TaskNo(u) < TaskNo(t) => task[u].pc # "idle"
  /\ task' = [task EXCEPT ![t] = GetCall([task[t] EXCEPT !.kind = "get", !.acct = a], "first", force)]
  /\ UNCHANGED <<tokens, locks, profile_arns, now, nextTok>>
  /\ UNCHANGED <<svars, stvars, pvars, bvars, fvars>>

\* a new request arrives: /v1/messages, admin "refresh now", admin "test account"
Arrive(t, k, a) ==
  /\ task[t].pc = "idle"
  /\ \A u \in Tasks : TaskNo(u) < TaskNo(t) => task[u].pc # "idle"
  /\ LET r == [task[t] EXCEPT !.kind = k, !.acct = a]
         blob == tokens[a] IN
     task' = [task EXCEPT ![t] =
       CASE k \in {"proxy", "stream"} -> GetCall(r, "first", FALSE)
         [] k = "refresh" ->
              IF ~blob.present \/ ~blob.creds \/ blob.refresh = 0
              THEN Fail(r)
              ELSE [r EXCEPT !.pc = "admin_oidc", !.local = blob]
         [] OTHER ->
              IF ~blob.present \/ blob.access = 0 THEN Fail(r)
              ELSE IF IsExpired(blob.exp, now)
                   THEN IF ~blob.creds \/ blob.refresh = 0
                        THEN Fail(r)
                        ELSE [r EXCEPT !.pc = "admin_oidc", !.local = blob]
                   ELSE [r EXCEPT !.pc = "test_profiles", !.tok = blob.access]]
  /\ UNCHANGED <<tokens, locks, profile_arns, now, nextTok>>
  /\ UNCHANGED <<svars, stvars, pvars, bvars, fvars>>

\* AccountService.refresh_token after its OIDC POST returned
AdminOidcResponse(t, ok, ei, hr) ==
  /\ task[t].pc = "admin_oidc"
  /\ LET r == task[t]
         new == [r.local EXCEPT !.access = nextTok, !.exp = now + ei,
                                !.refresh = IF hr THEN nextTok ELSE @] IN
     IF ok
     THEN /\ tokens' = [tokens EXCEPT ![r.acct] = new]
          /\ nextTok' = nextTok + 1
          /\ task' = [task EXCEPT ![t] =
               IF r.kind = "refresh"
               THEN [r EXCEPT !.pc = "done", !.http = 200, !.body = "refreshed", !.local = NoToken]
               ELSE [r EXCEPT !.pc = "test_profiles", !.tok = new.access, !.local = NoToken]]
     ELSE /\ task' = [task EXCEPT ![t] = [Fail(r) EXCEPT !.local = NoToken]]
          /\ UNCHANGED <<tokens, nextTok>>
  /\ UNCHANGED <<locks, profile_arns, now>>
  /\ UNCHANGED <<svars, stvars, pvars, bvars, fvars>>

\* test_account: the ListAvailableProfiles answer is only displayed; the
\* test then runs handle_non_streaming_request_by_name
TestProfilesResponse(t) ==
  /\ task[t].pc = "test_profiles"
  /\ task' = [task EXCEPT ![t] = GetCall(task[t], "first", FALSE)]
  /\ UNCHANGED <<tokens, locks, profile_arns, now, nextTok>>
  /\ UNCHANGED <<svars, stvars, pvars, bvars, fvars>>

NeedsRefreshAfterWait(r, blob) == r.force \/ r.waited \/ IsExpired(blob.exp, now)

\* `if force_refresh or token.is_expired()`
NeedsRefresh(r, blob) == r.force \/ IsExpired(blob.exp, now)

\* get_token_by_name once the account lock is free: read, check, maybe POST
Acquire(t) ==
  /\ task[t].pc = "lock_wait"
  /\ locks[task[t].acct] = "free"
  /\ LET r == task[t]
         blob == tokens[r.acct] IN
     IF ~blob.present
     THEN /\ task' = [task EXCEPT ![t] = Fail(r)]
          /\ UNCHANGED locks
     ELSE IF NeedsRefresh(r, blob)
          THEN IF ~blob.creds
               THEN /\ task' = [task EXCEPT ![t] = Fail(r)]
                    /\ UNCHANGED locks
               ELSE /\ locks' = [locks EXCEPT ![r.acct] = t]
                    /\ task' = [u \in All |->
                         IF u = t
                         THEN [r EXCEPT !.pc = "oidc", !.posted = TRUE, !.local = blob]
                         ELSE IF task[u].pc = "lock_wait" /\ task[u].acct = r.acct
                              THEN [task[u] EXCEPT !.waited = TRUE]
                              ELSE task[u]]
          ELSE /\ task' = [task EXCEPT ![t] = AfterToken(r, blob.access)]
               /\ UNCHANGED locks
  /\ UNCHANGED <<tokens, profile_arns, now, nextTok>>
  /\ UNCHANGED <<svars, stvars, pvars, bvars, fvars>>

RefreshSucceededAlways(ok) == TRUE

\* `if response.status_code != 200: raise`; a transport error raises too
RefreshSucceeded(ok) == ok

OverlayFresh(cur, acc, exp, hr) ==
  [NoToken EXCEPT !.present = TRUE, !.access = acc, !.exp = exp,
                  !.refresh = IF hr THEN acc ELSE @]

\* the answer's accessToken, the new expires_at and, when the answer has
\* one, its refreshToken are written over the blob read back from storage
Overlay(cur, acc, exp, hr) ==
  [cur EXCEPT !.present = TRUE, !.access = acc, !.exp = exp,
              !.refresh = IF hr THEN acc ELSE @]

ReleaseOnSuccess(l, a, ok) == IF ok THEN [l EXCEPT ![a] = "free"] ELSE l

\* get_token_by_name leaves `async with self._get_lock(account_name)`, by
\* return or by exception
Release(l, a, ok) == [l EXCEPT ![a] = "free"]

\* _refresh_token_by_name after its OIDC POST returned (the lock is held);
\* local was its argument `token`, the blob read before the POST
OidcResponse(t, ok, ei, hr) ==
  /\ task[t].pc = "oidc"
  /\ LET r == [task[t] EXCEPT !.local = NoToken]
         cur == IF tokens[r.acct].present THEN tokens[r.acct] ELSE NoToken
         new == Overlay(cur, nextTok, now + ei, hr) IN
     IF RefreshSucceeded(ok)
     THEN /\ tokens' = [tokens EXCEPT ![r.acct] = new]
          /\ nextTok' = nextTok + 1
          /\ task' = [task EXCEPT ![t] = AfterToken(r, new.access)]
     ELSE /\ task' = [task EXCEPT ![t] = Fail(r)]
          /\ UNCHANGED <<tokens, nextTok>>
  /\ locks' = Release(locks, task[t].acct, ok)
  /\ UNCHANGED <<profile_arns, now>>
  /\ UNCHANGED <<svars, stvars, pvars, bvars, fvars>>

\* fetch_profile_arn_by_name after ListAvailableProfiles returned
ArnResponse(t, ok) ==
  /\ task[t].pc = "arn_wait"
  /\ LET r == task[t] IN
     IF ok
     THEN /\ profile_arns' = [profile_arns EXCEPT ![r.acct] = r.acct]
          /\ task' = [task EXCEPT ![t] = SendPost(r, "post1", r.tok, r.acct)]
     ELSE /\ task' = [task EXCEPT ![t] = Fail(r)]
          /\ UNCHANGED profile_arns
  /\ UNCHANGED <<tokens, locks, now, nextTok>>
  /\ UNCHANGED <<svars, stvars, pvars, bvars, fvars>>

RetryStatusesAll == UpstreamStatuses \ {200}

\* `response.status_code in (401, 403) and retry_on_auth_error`
RetryStatuses == AuthStatuses

SetStatus(r, i, st) == [r EXCEPT !.posts[i].status = st]

\* proxy_request_by_name after the first upstream POST returned;
\* st = 0 is a transport error (httpx.RequestError)
Post1Response(t, st) ==
  /\ task[t].pc = "post1"
  /\ LET r == SetStatus(task[t], 1, st) IN
     task' = [task EXCEPT ![t] =
       IF st = 0 THEN Fail(r)
       ELSE IF st \in RetryStatuses THEN GetCall(CloseFirstResponse(r), "retry", TRUE)
       ELSE Finish(r, st)]
  /\ UNCHANGED <<tokens, locks, profile_arns, now, nextTok>>
  /\ UNCHANGED <<svars, stvars, pvars, bvars, fvars>>

\* proxy_request_by_name after the second upstream POST returned
Post2Response(t, st) ==
  /\ task[t].pc = "post2"
  /\ LET r == SetStatus(task[t], 2, st) IN
     task' = [task EXCEPT ![t] = IF st = 0 THEN Fail(r) ELSE Finish(r, st)]
  /\ UNCHANGED <<tokens, locks, profile_arns, now, nextTok>>
  /\ UNCHANGED <<svars, stvars, pvars, bvars, fvars>>

Tick ==
  /\ now < MaxTime
  /\ now' = now + 1
  /\ UNCHANGED <<tokens, locks, profile_arns, nextTok, task>>
  /\ UNCHANGED <<svars, stvars, pvars, bvars, fvars>>

\* requests and admin actions against the running server
TMNext ==
  \/ \E t \in Tasks, k \in Kinds, a \in Served : Arrive(t, k, a)
  \/ \E t \in Tasks : Acquire(t)
  \/ \E t \in Tasks, ok \in BOOLEAN, ei \in ExpiresIns : OidcResponse(t, ok, ei, TRUE)
  \/ \E t \in Tasks, ok \in BOOLEAN, ei \in ExpiresIns : AdminOidcResponse(t, ok, ei, TRUE)
  \/ \E t \in Tasks : TestProfilesResponse(t)
  \/ \E t \in Tasks, ok \in BOOLEAN : ArnResponse(t, ok)
  \/ \E t \in Tasks, st \in UpstreamStatuses \cup {0} : Post1Response(t, st)
  \/ \E t \in Tasks, st \in UpstreamStatuses \cup {0} : Post2Response(t, st)
  \/ Tick

\* the accounts that get no request start without an expiry time
ReqInit == TMInit /\ \A a \in Accounts \ Served : tokens[a].exp = NoExpiry

\* concurrent direct callers of get_token_by_name
GetNext ==
  \/ \E t \in Callers, a \in Accounts, f \in BOOLEAN : GetToken(t, a, f)
  \/ \E t \in Callers : Acquire(t)
  \/ \E t \in Callers, ok \in BOOLEAN, ei \in ExpiresIns, hr \in BOOLEAN : OidcResponse(t, ok, ei, hr)
  \/ Tick


\* ------------------------------------------------------------------------
\* Storage: the account store, and the inbound endpoint that resolves keys
\* ------------------------------------------------------------------------
Keys == {"k1", "k2"}

\* the static accounts of config.yaml
ConfigAccounts == {[name |-> "C", api_key |-> "k3"]}

\* x-api-key / Authorization values of inbound requests; "" is no key
RequestKeys == Keys \cup {"k3", "sk-kiro-A", ""}

NoAccount == [name |-> "", api_key |-> "", enabled |-> FALSE]

\* generate_api_key; the random part is left out
generate_api_key(n) == IF n = "A" THEN "sk-kiro-A" ELSE "sk-kiro-B"

\* an update names a new api_key or "keep", and a new enabled flag or "keep"
Updates == [api_key : Keys \cup {"keep"}, enabled : {"keep", "on", "off"}]

\* the accounts Spec, SpecGet and SpecStream run against
StoreIdle ==
  accounts = <<[name |-> "A", api_key |-> "k1", enabled |-> TRUE, created_at |-> 0, updated_at |-> 0],
               [name |-> "B", api_key |-> "k2", enabled |-> TRUE, created_at |-> 0, updated_at |-> 0]>>

Storage_list_accounts(accts) == {accts[i] : i \in 1..Len(accts)}

Position(accts, n) ==
  LET hits == {i \in 1..Len(accts) : accts[i].name = n} IN
  IF hits = {} THEN 0 ELSE SetMin(hits)

get_account_by_api_key_any(accts, key) ==
  LET hits == {i \in 1..Len(accts) : accts[i].api_key = key} IN
  IF hits = {} THEN NoAccount ELSE accts[SetMin(hits)]

\* Storage.get_account_by_api_key: the first enabled account with the key
get_account_by_api_key(accts, key) ==
  LET hits == {i \in 1..Len(accts) : accts[i].api_key = key /\ accts[i].enabled} IN
  IF hits = {} THEN NoAccount ELSE accts[SetMin(hits)]

\* AppConfig.get_account_by_api_key
config_get_account_by_api_key(key) ==
  IF \E c \in ConfigAccounts : c.api_key = key
  THEN CHOOSE c \in ConfigAccounts : c.api_key = key
  ELSE [name |-> "", api_key |-> ""]

RemoveAt(seq, i) == [j \in 1..(Len(seq) - 1) |-> IF j < i THEN seq[j] ELSE seq[j + 1]]

\* POST /admin/accounts: a taken name or api_key is refused (ValueError, 400)
CreateAccount(n, k) ==
  /\ LET key == IF k = "" THEN generate_api_key(n) ELSE k IN
     IF \E i \in 1..Len(accounts) : accounts[i].name = n \/ accounts[i].api_key = key
     THEN UNCHANGED accounts
     ELSE accounts' = Append(accounts, [name |-> n, api_key |-> key, enabled |-> TRUE,
                                        created_at |-> now, updated_at |-> now])
  /\ UNCHANGED <<tmvars, svars, pvars, bvars, fvars>>

\* accounts[i].update(updates): updates is a dict, a record here; name and
\* created_at are set when the dict has them
ApplyFields(acct, upd) ==
  [acct EXCEPT !.api_key = IF upd.api_key = "keep" THEN @ ELSE upd.api_key,
               !.enabled = IF upd.enabled = "keep" THEN @ ELSE upd.enabled = "on",
               !.name = IF "name" \in DOMAIN upd THEN upd.name ELSE @,
               !.created_at = IF "created_at" \in DOMAIN upd THEN upd.created_at ELSE @,
               !.updated_at = upd.updated_at]

ApplyUpdateUnpopped(acct, upd) ==
  ApplyFields(acct, [f \in DOMAIN upd \cup {"updated_at"} |->
                       IF f = "updated_at" THEN now ELSE upd[f]])

\* Storage.update_account: name and created_at are popped from updates,
\* updated_at is set, then accounts[i].update(updates)
ApplyUpdate(acct, upd) ==
  ApplyFields(acct, [f \in (DOMAIN upd \ {"name", "created_at"}) \cup {"updated_at"} |->
                       IF f = "updated_at" THEN now ELSE upd[f]])

\* PUT /admin/accounts/{name}
UpdateAccount(n, upd) ==
  /\ LET i == Position(accounts, n) IN
     IF i = 0 THEN UNCHANGED accounts
     ELSE accounts' = [accounts EXCEPT ![i] = ApplyUpdate(@, upd)]
  /\ UNCHANGED <<tmvars, svars, pvars, bvars, fvars>>

\* POST /admin/accounts/{name}/toggle: update_account(name, {"enabled": ...})
ToggleAccount(n) ==
  /\ LET i == Position(accounts, n) IN
     IF i = 0 THEN UNCHANGED accounts
     ELSE accounts' = [accounts EXCEPT ![i].enabled = ~@, ![i].updated_at = now]
  /\ UNCHANGED <<tmvars, svars, pvars, bvars, fvars>>

\* DELETE /admin/accounts/{name}: the account and its token file
DeleteAccount(n) ==
  /\ LET i == Position(accounts, n) IN
     IF i = 0 THEN UNCHANGED <<accounts, tokens>>
     ELSE /\ accounts' = RemoveAt(accounts, i)
          /\ tokens' = [tokens EXCEPT ![n] = NoToken]
  /\ UNCHANGED <<locks, profile_arns, now, nextTok, task>>
  /\ UNCHANGED <<svars, pvars, bvars, fvars>>

\* POST /admin/accounts/{name}/token: the admin saves a token blob
SaveToken(n, e) ==
  /\ IF Position(accounts, n) = 0 THEN UNCHANGED tokens
     ELSE tokens' = [tokens EXCEPT ![n] =
            [present |-> TRUE, access |-> 1, refresh |-> 1, exp |-> e, creds |-> TRUE]]
  /\ UNCHANGED <<locks, profile_arns, now, nextTok, task>>
  /\ UNCHANGED <<svars, stvars, pvars, bvars, fvars>>

Reject(r, status) ==
  [r EXCEPT !.pc = "done", !.http = status, !.body = "rejected"]

\* messages_endpoint up to the point where it awaits the upstream handler;
\* body_ok is whether the body parses and names a model; a streaming
\* request returns its StreamingResponse at once
MessagesEndpoint(t, key, body_ok, stream) ==
  /\ task[t].pc = "idle"
  /\ \A u \in Tasks : TaskNo(u) < TaskNo(t) => task[u].pc # "idle"
  /\ LET storage_account == get_account_by_api_key(accounts, key)
         config_account == config_get_account_by_api_key(key)
         use_storage == storage_account.name # ""
         r == [task[t] EXCEPT !.kind = "proxy",
                 !.acct = IF use_storage THEN storage_account.name ELSE @] IN
     task' = [task EXCEPT ![t] =
       IF key = "" THEN Reject(r, 401)
       ELSE IF ~use_storage /\ config_account.name = "" THEN Reject(r, 401)
       ELSE IF ~body_ok THEN Reject(r, 400)
       ELSE IF stream THEN [r EXCEPT !.pc = "done", !.http = 200, !.body = "stream"]
       ELSE IF use_storage THEN GetCall(r, "first", FALSE)
       ELSE [r EXCEPT !.kind = "config", !.pc = "config_proxy"]]
  /\ UNCHANGED <<tokens, locks, profile_arns, now, nextTok>>
  /\ UNCHANGED <<svars, stvars, pvars, bvars, fvars>>

\* handle_non_streaming_request of a config.yaml account has returned a
\* message, an error dict, or raised
ConfigProxyResponse(t, outcome) ==
  /\ task[t].pc = "config_proxy"
  /\ task' = [task EXCEPT ![t] =
       IF outcome = "exception" THEN Fail(task[t])
       ELSE [task[t] EXCEPT !.pc = "done", !.http = 200, !.body = outcome]]
  /\ UNCHANGED <<tokens, locks, profile_arns, now, nextTok>>
  /\ UNCHANGED <<svars, stvars, pvars, bvars, fvars>>

StoreTasks == {"t1"}

\* the store as Storage.__init__ leaves it: no accounts, no token files
StoreInit ==
  /\ accounts = <<>>
  /\ tokens = [a \in Accounts |-> NoToken]
  /\ locks = [a \in Accounts |-> "free"]
  /\ profile_arns = [a \in Accounts |-> NoArn]
  /\ now = 0
  /\ nextTok = 2
  /\ task = [t \in All |-> IdleTask]

\* admin operations on the store, with inbound requests in flight
StoreNext ==
  \/ \E n \in Accounts, k \in Keys \cup {""} : CreateAccount(n, k)
  \/ \E n \in Accounts, upd \in Updates : UpdateAccount(n, upd)
  \/ \E n \in Accounts : ToggleAccount(n)
  \/ \E n \in Accounts : DeleteAccount(n)
  \/ \E n \in Accounts, e \in InitExpiries : SaveToken(n, e)
  \/ \E t \in StoreTasks, key \in RequestKeys, b \in BOOLEAN, s \in BOOLEAN :
       MessagesEndpoint(t, key, b, s)
  \/ \E t \in StoreTasks, o \in {"message", "error", "exception"} : ConfigProxyResponse(t, o)
  \/ \E t \in StoreTasks : Acquire(t)
  \/ \E t \in StoreTasks, ok \in BOOLEAN, ei \in ExpiresIns : OidcResponse(t, ok, ei, TRUE)
  \/ \E t \in StoreTasks, ok \in BOOLEAN : ArnResponse(t, ok)
  \/ \E t \in StoreTasks, st \in UpstreamStatuses \cup {0} : Post1Response(t, st)
  \/ \E t \in StoreTasks, st \in UpstreamStatuses \cup {0} : Post2Response(t, st)

\* direct callers of get_token_by_name on the served account, and the
\* admin saving token blobs for it (POST /admin/accounts/{name}/token) or
\* deleting it with its blob
UploadNext ==
  \/ \E t \in Callers, a \in Served, f \in BOOLEAN : GetToken(t, a, f)
  \/ \E t \in Callers : Acquire(t)
  \/ \E t \in Callers, ok \in BOOLEAN, ei \in ExpiresIns : OidcResponse(t, ok, ei, TRUE)
  \/ \E n \in Served, e \in InitExpiries : SaveToken(n, e)
  \/ \E n \in Served : DeleteAccount(n)
  \/ Tick

\* Storage.update_account called with any dict: one that also names a name
\* and a created_at, besides those PUT /admin/accounts/{name} passes
AccountsNext ==
  \/ \E n \in Accounts, k \in Keys \cup {""} : CreateAccount(n, k)
  \/ \E n \in Accounts,
        upd \in Updates \cup [name : Accounts, api_key : Keys \cup {"keep"},
                               enabled : {"keep", "on", "off"}, created_at : {9}] :
       UpdateAccount(n, upd)
  \/ \E n \in Accounts : ToggleAccount(n)
  \/ \E n \in Accounts : DeleteAccount(n)
  \/ Tick

\* ------------------------------------------------------------------------
\* response_parser: parse_binary_events, the bulk Event-Stream decoder
\* ------------------------------------------------------------------------
\* Bytes are numbers 0..255.  A JSON document is one byte: 1..6 are the
\* objects of JsonObjects, 7 is a JSON value that is not an object; byte 255
\* is not UTF-8, any other text is not JSON.
MaxFrames == 2

VENT == <<118, 101, 110, 116>>

JsonObjects == 1..6

NonObject == 7

HeaderLens == {0, 3}

Payloads ==
  { <<1>>, <<2>>, <<3>>, <<4>>, <<5>>, <<6>>, VENT \o <<1>>,
    <<120>>, <<255>>, <<NonObject>>, <<>> }

FramePool == [hlen : HeaderLens, payload : Payloads]

\* the frames a truncated tail is cut from, and the cut lengths
TailFrames == {[hlen |-> 0, payload |-> <<1>>], [hlen |-> 3, payload |-> <<4>>]}

TailLens == {7, 12, 16}

\* struct.pack(">I", n)
PackU32(n) == <<(n \div 16777216) % 256, (n \div 65536) % 256, (n \div 256) % 256, n % 256>>

\* struct.unpack_from(">I", d, off)
UnpackU32(d, off) ==
  ((d[off + 1] * 256 + d[off + 2]) * 256 + d[off + 3]) * 256 + d[off + 4]

FrameLen(f) == 16 + f.hlen + Len(f.payload)

\* total length, header length, prelude CRC, headers, payload, message CRC
EncodeFrame(f) ==
  PackU32(FrameLen(f)) \o PackU32(f.hlen) \o <<0, 0, 0, 0>>
    \o [i \in 1..f.hlen |-> 9] \o f.payload \o <<0, 0, 0, 0>>

RECURSIVE EncodeFrames(_)
EncodeFrames(fs) ==
  IF fs = <<>> THEN <<>> ELSE EncodeFrame(Head(fs)) \o EncodeFrames(Tail(fs))

\* data[a:b]
Slice(d, a, b) ==
  LET hi == IF b < Len(d) THEN b ELSE Len(d) IN
  IF a >= hi THEN <<>> ELSE SubSeq(d, a + 1, hi)

\* payload.decode("utf-8"), the "vent" strip and json.loads
DecodePayload(payload) ==
  IF \E i \in 1..Len(payload) : payload[i] = 255
  THEN [err |-> "UnicodeDecodeError", doc |-> 0]
  ELSE LET payload_str == IF Len(payload) >= 4 /\ SubSeq(payload, 1, 4) = VENT
                          THEN SubSeq(payload, 5, Len(payload))
                          ELSE payload IN
       IF Len(payload_str) = 1 /\ payload_str[1] \in JsonObjects \cup {NonObject}
       THEN [err |-> "none", doc |-> payload_str[1]]
       ELSE [err |-> "JSONDecodeError", doc |-> 0]

\* response_parser.AssistantResponseEvent(evt_data) of the JSON objects:
\* text, tool start, tool input, tool stop, bare stop, conversationId only
ParsedEvent(doc) ==
  [content |-> IF doc = 1 THEN "x" ELSE "",
   input |-> IF doc = 3 THEN "{" ELSE "None",
   name |-> IF doc \in {2, 3, 4} THEN "f" ELSE "",
   tool_use_id |-> IF doc \in {2, 3, 4} THEN "t1" ELSE "",
   stop |-> doc \in {4, 5}]

NoUsage == -1

\* type is delta.type, content_block.type or delta.stop_reason; text is
\* delta.text or delta.partial_json; output_tokens is usage.output_tokens
SSEEvent(event, type, at) ==
  [event |-> event, type |-> type, at |-> at, id |-> "", text |-> "", output_tokens |-> NoUsage]

\* at is the offset of the frame the event was decoded from
convert_assistant_event_to_sse(evt, at) ==
  IF evt.content # ""
  THEN [SSEEvent("content_block_delta", "text_delta", at) EXCEPT !.text = evt.content]
  ELSE IF evt.tool_use_id # "" /\ evt.name # "" /\ ~evt.stop
       THEN IF evt.input = "None"
            THEN [SSEEvent("content_block_start", "tool_use", at) EXCEPT !.id = evt.tool_use_id]
            ELSE [SSEEvent("content_block_delta", "input_json_delta", at)
                    EXCEPT !.id = evt.tool_use_id, !.text = evt.input]
  ELSE IF evt.stop THEN SSEEvent("content_block_stop", "", at)
  ELSE SSEEvent("", "", at)

\* the events one decoded object adds to the list
FrameEvents(doc, at) ==
  LET evt == ParsedEvent(doc)
      sse_event == convert_assistant_event_to_sse(evt, at)
      first == IF sse_event.event # "" THEN <<sse_event>> ELSE <<>> IN
  IF evt.tool_use_id # "" /\ evt.name # "" /\ evt.stop
  THEN Append(first, [SSEEvent("message_delta", "tool_use", at) EXCEPT !.output_tokens = 0])
  ELSE first

\* ------------------------------------------------------------------------
\* collect_full_response: the events of a batch answer to one response
\* ------------------------------------------------------------------------
\* current_text and input_json are sequences of the strings that were
\* concatenated (each of them one character long)
NoResponse ==
  [current_text |-> <<>>, tool_uses |-> <<>>, stop_reason |-> "none", output_tokens |-> NoUsage]

MessageDeltaStopReasonKept(evt, cur) == cur

\* `if "stop_reason" in delta: stop_reason = delta["stop_reason"]`
MessageDeltaStopReason(evt, cur) == evt.type

\* `if "output_tokens" in usage: output_tokens = usage["output_tokens"]`
MessageDeltaUsage(evt, cur) == IF evt.output_tokens # NoUsage THEN evt.output_tokens ELSE cur

ToolUsePosition(tool_uses, id) ==
  LET hits == {i \in 1..Len(tool_uses) : tool_uses[i].id = id} IN
  IF hits = {} THEN 0 ELSE SetMin(hits)

\* one turn of `for evt in events`
CollectEvent(acc, evt) ==
  LET i == ToolUsePosition(acc.tool_uses, evt.id) IN
  CASE evt.event = "content_block_delta" /\ evt.type = "text_delta" ->
         [acc EXCEPT !.current_text = Append(@, evt.text)]
    [] evt.event = "content_block_delta" /\ evt.type = "input_json_delta" ->
         IF i = 0
         THEN [acc EXCEPT !.tool_uses = Append(@, [id |-> evt.id, input_json |-> <<evt.text>>])]
         ELSE [acc EXCEPT !.tool_uses[i].input_json = Append(@, evt.text)]
    [] evt.event = "content_block_start" /\ evt.type = "tool_use" ->
         IF i = 0
         THEN [acc EXCEPT !.tool_uses = Append(@, [id |-> evt.id, input_json |-> <<>>])]
         ELSE [acc EXCEPT !.tool_uses[i].input_json = <<>>]
    [] evt.event = "message_delta" ->
         [acc EXCEPT !.stop_reason = MessageDeltaStopReason(evt, @),
                     !.output_tokens = MessageDeltaUsage(evt, @)]
    [] OTHER -> acc

RECURSIVE CollectFrom(_, _)
CollectFrom(acc, evts) ==
  IF evts = <<>> THEN acc ELSE CollectFrom(CollectEvent(acc, Head(evts)), Tail(evts))

collect_full_response(evts) ==
  CollectFrom([NoResponse EXCEPT !.stop_reason = "end_turn", !.output_tokens = 0], evts)

PayloadLenNoCrc(total_len, header_len) == total_len - header_len - 12

PayloadLenClamped(total_len, header_len) ==
  IF total_len - header_len - 16 < 0 THEN 0 ELSE total_len - header_len - 16

\* total length minus headers, 12 bytes of prelude and 4 bytes of CRC
PayloadLen(total_len, header_len) == total_len - header_len - 16

OnDecodeErrorBreak(off, total_len) == [offset |-> off, ppc |-> "returned"]

\* a payload that does not decode is logged; the loop moves to the next frame
OnDecodeError(off, total_len) == [offset |-> off + total_len, ppc |-> "running"]

\* a call parse_binary_events(data) on some frames and a tail that is no
\* frame: a truncated frame, or 20 bytes whose total length and header
\* length (the pairs below) are zero, below 16 or contradict each other
ParseInit ==
  /\ pin \in {[frames |-> fs, tail |-> tl] :
        fs \in UNION {[1..n -> FramePool] : n \in 0..MaxFrames},
        tl \in {<<>>} \cup {SubSeq(EncodeFrame(f), 1, k) : f \in TailFrames, k \in TailLens}
                     \cup {PackU32(p[1]) \o PackU32(p[2]) \o [i \in 1..12 |-> 0] :
                             p \in {<<0, 0>>, <<0, 4>>, <<12, 0>>, <<16, 4>>, <<20, 8>>}}}
  /\ data = EncodeFrames(pin.frames) \o pin.tail
  /\ offset = 0
  /\ events = <<>>
  /\ ppc = "running"
  /\ response = NoResponse
  /\ turns = 0

\* no parse is running
ParseIdle ==
  /\ pin = [frames |-> <<>>, tail |-> <<>>]
  /\ data = <<>>
  /\ offset = 0
  /\ events = <<>>
  /\ ppc = "returned"
  /\ response = NoResponse
  /\ turns = 0

\* one turn of `while offset + 12 <= len(data)`; when the loop ends,
\* handle_non_streaming_request_by_name collects the events into the response
ParseFrame ==
  /\ ppc = "running"
  /\ IF offset + 12 > Len(data)
     THEN ppc' = "returned" /\ UNCHANGED <<offset, events>>
     ELSE LET total_len == UnpackU32(data, offset)
              header_len == UnpackU32(data, offset + 4)
              payload_start == offset + 12 + header_len
              payload_len == PayloadLen(total_len, header_len)
              payload == Slice(data, payload_start, payload_start + payload_len)
              dec == DecodePayload(payload) IN
          IF offset + total_len > Len(data) \/ payload_len < 0
          THEN ppc' = "returned" /\ UNCHANGED <<offset, events>>
          ELSE IF dec.err # "none"
               THEN /\ offset' = OnDecodeError(offset, total_len).offset
                    /\ ppc' = OnDecodeError(offset, total_len).ppc
                    /\ UNCHANGED events
               ELSE IF dec.doc = NonObject
                    THEN ppc' = "raised" /\ UNCHANGED <<offset, events>>
                    ELSE /\ events' = events \o FrameEvents(dec.doc, offset)
                         /\ offset' = offset + total_len
                         /\ UNCHANGED ppc
  /\ response' = IF ppc' = "returned" THEN collect_full_response(events') ELSE response
  /\ turns' = turns + 1
  /\ UNCHANGED <<pin, data>>
  /\ UNCHANGED <<tmvars, svars, stvars, bvars, fvars>>

ParseNext == ParseFrame

\* ------------------------------------------------------------------------
\* request_converter: the upstream request of an inbound request
\* ------------------------------------------------------------------------
\* A string is a sequence of characters.  A content is a string or a list
\* of blocks (text, tool_result, image); the content of a tool_result is a
\* string, a list of items (text, image) or absent.
MaxMsgs == 3

PLACEHOLDER == <<"answer for user question">>

NoInner == [kind |-> "none", text |-> <<>>, items |-> <<>>]

InnerStr(t) == [kind |-> "str", text |-> t, items |-> <<>>]

InnerList(items) == [kind |-> "list", text |-> <<>>, items |-> items]

Item(type, t) == [type |-> type, text |-> t]

TextBlock(t) == [type |-> "text", text |-> t, content |-> NoInner]

ToolResult(inner) == [type |-> "tool_result", text |-> <<>>, content |-> inner]

ImageBlock == [type |-> "image", text |-> <<>>, content |-> NoInner]

StrContent(t) == [kind |-> "str", text |-> t, blocks |-> <<>>]

ListContent(blocks) == [kind |-> "list", text |-> <<>>, blocks |-> blocks]

\* the message contents of inbound requests
Contents ==
  { StrContent(<<>>), StrContent(<<"a">>),
    ListContent(<<>>),
    ListContent(<<TextBlock(<<>>), ImageBlock>>),
    ListContent(<<TextBlock(<<"a">>), ToolResult(InnerStr(<<"r">>))>>),
    ListContent(<<ToolResult(InnerStr(<<>>))>>),
    ListContent(<<ToolResult(InnerList(<<Item("text", <<>>), Item("image", <<>>)>>))>>),
    ListContent(<<ToolResult(NoInner), ToolResult(InnerList(<<Item("text", <<"i">>)>>))>>) }

Roles == {"user", "assistant"}

\* the second argument of build_codewhisperer_request: the AccountConfig of
\* its signature, or the profile ARN string that proxy_request_by_name and
\* proxy_request pass (the ARN of an account is written as its name)
AccountArgs ==
  {[type |-> "AccountConfig", val |-> "C"]} \cup {[type |-> "str", val |-> a] : a \in Accounts}

IsTextItem(item) == item.type = "text"

RECURSIVE ItemTexts(_)
\* `texts.append(item.get("text", ""))` for the text items
ItemTexts(items) ==
  IF items = <<>> THEN <<>>
  ELSE (IF IsTextItem(Head(items)) THEN <<Head(items).text>> ELSE <<>>) \o ItemTexts(Tail(items))

\* what one block adds to texts
BlockTexts(block) ==
  CASE block.type = "text" -> IF block.text # <<>> THEN <<block.text>> ELSE <<>>
    [] block.type = "tool_result" ->
         CASE block.content.kind = "str" -> <<block.content.text>>
           [] block.content.kind = "list" -> ItemTexts(block.content.items)
           [] OTHER -> <<>>
    [] OTHER -> <<>>

RECURSIVE AllTexts(_)
AllTexts(blocks) ==
  IF blocks = <<>> THEN <<>> ELSE BlockTexts(Head(blocks)) \o AllTexts(Tail(blocks))

RECURSIVE Join(_)
\* "\n".join(texts)
Join(texts) ==
  IF Len(texts) = 0 THEN <<>>
  ELSE IF Len(texts) = 1 THEN texts[1]
  ELSE texts[1] \o <<"\n">> \o Join(Tail(texts))

get_message_content(content) ==
  IF content.kind = "str"
  THEN IF content.text # <<>> THEN content.text ELSE PLACEHOLDER
  ELSE LET texts == AllTexts(content.blocks) IN
       IF texts # <<>> THEN Join(texts) ELSE PLACEHOLDER

\* a history record; from is the position of the message it was made of
\* (0 for the records of the system prompt)
HistoryRecord(kind, text, from) == [kind |-> kind, content |-> text, from |-> from]

\* the two records of a system prompt
SystemHistory(system) ==
  IF system = "none" THEN <<>>
  ELSE << HistoryRecord("userInputMessage", <<"s">>, 0),
          HistoryRecord("assistantResponseMessage", <<"I will follow these instructions">>, 0) >>

RECURSIVE MessageHistory(_, _)
\* `while i < len(messages) - 1`, with positions counted from 1
MessageHistory(messages, i) ==
  IF i >= Len(messages) THEN <<>>
  ELSE IF messages[i].role = "user"
       THEN LET user_msg == HistoryRecord("userInputMessage", get_message_content(messages[i].content), i) IN
            IF i + 1 < Len(messages) /\ messages[i + 1].role = "assistant"
            THEN << user_msg,
                    HistoryRecord("assistantResponseMessage",
                                  get_message_content(messages[i + 1].content), i + 1) >>
                   \o MessageHistory(messages, i + 2)
            ELSE <<user_msg>> \o MessageHistory(messages, i + 1)
       ELSE MessageHistory(messages, i + 1)

NoRequest == [err |-> "none", profileArn |-> "", content |-> <<>>, history |-> <<>>]

\* `account.profile_arn`
ProfileArnOf(account) ==
  IF account.type = "AccountConfig" THEN account.val ELSE "AttributeError"

build_codewhisperer_request(req, account) ==
  IF req.messages = <<>> THEN [NoRequest EXCEPT !.err = "IndexError"]
  ELSE IF ProfileArnOf(account) = "AttributeError" THEN [NoRequest EXCEPT !.err = "AttributeError"]
  ELSE [err |-> "none",
        profileArn |-> ProfileArnOf(account),
        content |-> get_message_content(req.messages[Len(req.messages)].content),
        history |-> SystemHistory(req.system) \o MessageHistory(req.messages, 1)]

\* a call build_codewhisperer_request(anthropic_req, account)
BuildInit ==
  /\ breq \in [messages : UNION {[1..n -> [role : Roles, content : Contents]] : n \in 0..MaxMsgs},
               system : {"none", "s"},
               account : AccountArgs]
  /\ bout = NoRequest
  /\ bpc = "called"

\* no request is being built
BuildIdle ==
  /\ breq = [messages |-> <<>>, system |-> "none", account |-> [type |-> "AccountConfig", val |-> "C"]]
  /\ bout = NoRequest
  /\ bpc = "idle"

BuildRequest ==
  /\ bpc = "called"
  /\ bout' = build_codewhisperer_request(breq, breq.account)
  /\ bpc' = IF bout'.err = "none" THEN "built" ELSE "raised"
  /\ UNCHANGED breq
  /\ UNCHANGED <<tmvars, svars, stvars, pvars, fvars>>

BuildNext == BuildRequest

\* ------------------------------------------------------------------------
\* The data files: accounts.json and the token blobs
\* ------------------------------------------------------------------------
\* A content is numbered; content 0 is what the file held at the start.  A
\* file is complete (it holds the whole of content ver), empty (cut to
\* length 0 by open(..., "w")) or partial (a part of the JSON text of
\* content ver has reached it); old is the last complete content it held.
MaxWrites == 3

\* accounts.json, a token blob of the store, a token file of config.yaml
Files == {"accounts.json", "tokens/A.json", "token_file"}

NoFile == "none"

Complete(v) == [state |-> "complete", ver |-> v, old |-> v]

FileIdle ==
  /\ files = [f \in Files |-> Complete(0)]
  /\ wfile = NoFile
  /\ seen = [file |-> NoFile, state |-> "complete", ver |-> 0]
  /\ nextVer = 1

\* `open(path, "w")` on the data file itself: the file is cut to length 0
Opened(cur, v) == [state |-> "empty", ver |-> v, old |-> cur.old]

\* _save_accounts, save_token, _save_token_to_file: `with open(f, "w")`
OpenForWrite(f) ==
  /\ wfile = NoFile
  /\ nextVer <= MaxWrites
  /\ files' = [files EXCEPT ![f] = Opened(@, nextVer)]
  /\ wfile' = f
  /\ nextVer' = nextVer + 1
  /\ UNCHANGED seen
  /\ UNCHANGED <<tmvars, svars, stvars, pvars, bvars>>

\* json.dump: a part of the text leaves the write buffer
DumpPart ==
  /\ wfile # NoFile
  /\ files[wfile].state = "empty"
  /\ files' = [files EXCEPT ![wfile].state = "partial"]
  /\ UNCHANGED <<wfile, seen, nextVer>>
  /\ UNCHANGED <<tmvars, svars, stvars, pvars, bvars>>

\* the end of the with block: the rest is written and the file is closed
CloseFile ==
  /\ wfile # NoFile
  /\ files' = [files EXCEPT ![wfile] = Complete(@.ver)]
  /\ wfile' = NoFile
  /\ UNCHANGED <<seen, nextVer>>
  /\ UNCHANGED <<tmvars, svars, stvars, pvars, bvars>>

\* the process stops during a write; the files stay as they are
Crash ==
  /\ wfile # NoFile
  /\ wfile' = NoFile
  /\ UNCHANGED <<files, seen, nextVer>>
  /\ UNCHANGED <<tmvars, svars, stvars, pvars, bvars>>

\* _load_accounts, Storage.get_token, TokenManager._read_token_from_file of
\* a process that is not writing: what is in the file
ReadFile(f) ==
  /\ wfile = NoFile
  /\ seen' = [file |-> f, state |-> files[f].state, ver |-> files[f].ver]
  /\ UNCHANGED <<files, wfile, nextVer>>
  /\ UNCHANGED <<tmvars, svars, stvars, pvars, bvars>>

FileNext ==
  \/ \E f \in Files : OpenForWrite(f)
  \/ DumpPart
  \/ CloseFile
  \/ Crash
  \/ \E f \in Files : ReadFile(f)

\* ------------------------------------------------------------------------
\* StreamHandler: upstream events to Anthropic SSE records
\* ------------------------------------------------------------------------
\* Text is a sequence of one-character strings.  Token counting
\* (_count_tokens) only fills usage.output_tokens and is left out.

MaxEvents == 4

THINKING_START_TAG == <<"<", "t", "h", "i", "n", "k", "i", "n", "g", ">">>

THINKING_END_TAG == <<"<", "/", "t", "h", "i", "n", "k", "i", "n", "g", ">">>

\* content chunks the upstream may deliver
Chunks ==
  { <<"a">>,
    <<"<">>,
    <<"a", "<", "t", "h">>,
    <<"i", "n", "k", "i", "n", "g", ">", "b">>,
    <<"b", "<", "/", "t", "h", "i">>,
    <<"n", "k", "i", "n", "g", ">", "c">>,
    <<"a">> \o THINKING_START_TAG \o <<"b">> \o THINKING_END_TAG \o <<"c">>,
    <<>> }

ToolIds == {"", "t1"}

ToolInputs == {<<>>, <<"{">>}

\* toolUseEvent payloads: toolUseId and name (present together or not at
\* all), an input fragment (or none) and the stop flag
ToolPayloads ==
  {[toolUseId |-> i, input |-> f, stop |-> st] :
     i \in ToolIds, f \in ToolInputs, st \in BOOLEAN}

\* str.find: 0-based position of the first occurrence of tag, or -1
Find(buffer, tag) ==
  LET hits == {i \in 0..(Len(buffer) - Len(tag)) : SubSeq(buffer, i + 1, i + Len(tag)) = tag} IN
  IF hits = {} THEN -1 ELSE SetMin(hits)

pending_tag_suffix(buffer, tag) ==
  IF buffer = <<>> \/ tag = <<>> THEN 0
  ELSE LET max_len == IF Len(buffer) < Len(tag) - 1 THEN Len(buffer) ELSE Len(tag) - 1
           fits == {l \in 1..max_len :
                      SubSeq(buffer, Len(buffer) - l + 1, Len(buffer)) = SubSeq(tag, 1, l)} IN
       IF fits = {} THEN 0 ELSE SetMax(fits)

Drop(buffer, n) == SubSeq(buffer, n + 1, Len(buffer))

Take(buffer, n) == SubSeq(buffer, 1, n)

Sse(ev, index, kind, text, id) ==
  [ev |-> ev, index |-> index, kind |-> kind, text |-> text, id |-> id]

\* StreamHandler.__init__; out is the sequence of records yielded so far
NewHandler ==
         [content_block_index |-> -1,
           content_block_started |-> FALSE,
           content_block_start_sent |-> FALSE,
           content_block_stop_sent |-> FALSE,
           message_start_sent |-> FALSE,
           current_tool_use |-> "",
           tool_input_buffer |-> <<>>,
           processed_tool_use_ids |-> {},
           in_think_block |-> FALSE,
           think_buffer |-> <<>>,
           pending_start_tag_chars |-> 0,
           out |-> <<>>]

\* handle_stream is being iterated
StreamInit ==
  /\ sh = NewHandler
  /\ spc = "running"
  /\ fed = <<>>
  /\ nev = 0
  /\ ntool = 0

\* the handler of a streaming request whose upstream answer is awaited
StreamWaiting ==
  /\ sh = NewHandler
  /\ spc = "waiting"
  /\ fed = <<>>
  /\ nev = 0
  /\ ntool = 0

Emit(h, e) == [h EXCEPT !.out = Append(@, e)]

build_content_block_start(h, block_type) ==
  Sse("content_block_start", h.content_block_index, block_type, <<>>, "")

build_content_block_delta(h, text, block_type) ==
  Sse("content_block_delta", h.content_block_index,
      IF block_type = "thinking" THEN "thinking_delta" ELSE "text_delta", text, "")

build_content_block_stop_next(h) ==
  Sse("content_block_stop", h.content_block_index + 1, "", <<>>, "")

build_content_block_stop(h) ==
  Sse("content_block_stop", h.content_block_index, "", <<>>, "")

\* close the open text block (if any) and open a thinking block
OpenThinking(h) ==
  LET h1 == IF h.content_block_start_sent
            THEN [Emit(h, build_content_block_stop(h))
                    EXCEPT !.content_block_stop_sent = TRUE, !.content_block_start_sent = FALSE]
            ELSE h
      h2 == [h1 EXCEPT !.content_block_index = @ + 1] IN
  [Emit(h2, build_content_block_start(h2, "thinking"))
     EXCEPT !.content_block_start_sent = TRUE, !.content_block_started = TRUE,
            !.content_block_stop_sent = FALSE, !.in_think_block = TRUE]

\* emit a text delta, opening a text block when none is open
EmitText(h, text_chunk) ==
  LET h1 == IF ~h.content_block_start_sent
            THEN LET h0 == [h EXCEPT !.content_block_index = @ + 1] IN
                 [Emit(h0, build_content_block_start(h0, "text"))
                    EXCEPT !.content_block_start_sent = TRUE, !.content_block_started = TRUE,
                           !.content_block_stop_sent = FALSE]
            ELSE h IN
  Emit(h1, build_content_block_delta(h1, text_chunk, "text"))

RECURSIVE ThinkLoop(_)
\* the `while self.think_buffer:` loop of handle_stream
ThinkLoop(h) ==
  LET buf == h.think_buffer IN
  IF buf = <<>> THEN h
  ELSE IF h.pending_start_tag_chars > 0
  THEN IF Len(buf) < h.pending_start_tag_chars
       THEN [h EXCEPT !.pending_start_tag_chars = @ - Len(buf), !.think_buffer = <<>>]
       ELSE ThinkLoop([h EXCEPT !.think_buffer = Drop(buf, h.pending_start_tag_chars),
                                !.pending_start_tag_chars = 0])
  ELSE IF ~h.in_think_block
  THEN LET think_start == Find(buf, THINKING_START_TAG) IN
       IF think_start = -1
       THEN LET pending == pending_tag_suffix(buf, THINKING_START_TAG)
                emit_len == Len(buf) - pending IN
            IF pending = Len(buf) /\ pending > 0
            THEN [OpenThinking(h) EXCEPT
                    !.pending_start_tag_chars = Len(THINKING_START_TAG) - pending,
                    !.think_buffer = <<>>]
            ELSE IF emit_len <= 0 THEN h
            ELSE ThinkLoop([EmitText(h, Take(buf, emit_len)) EXCEPT !.think_buffer = Drop(buf, emit_len)])
       ELSE LET before_text == Take(buf, think_start)
                h1 == IF before_text # <<>> THEN EmitText(h, before_text) ELSE h
                h2 == [h1 EXCEPT !.think_buffer = Drop(buf, think_start + Len(THINKING_START_TAG))] IN
            ThinkLoop([OpenThinking(h2) EXCEPT !.pending_start_tag_chars = 0])
  ELSE LET think_end == Find(buf, THINKING_END_TAG) IN
       IF think_end = -1
       THEN LET pending == pending_tag_suffix(buf, THINKING_END_TAG)
                emit_len == Len(buf) - pending IN
            IF emit_len <= 0 THEN h
            ELSE ThinkLoop([Emit(h, build_content_block_delta(h, Take(buf, emit_len), "thinking"))
                              EXCEPT !.think_buffer = Drop(buf, emit_len)])
       ELSE LET thinking_chunk == Take(buf, think_end)
                h1 == IF thinking_chunk # <<>>
                      THEN Emit(h, build_content_block_delta(h, thinking_chunk, "thinking"))
                      ELSE h
                h2 == [h1 EXCEPT !.think_buffer = Drop(buf, think_end + Len(THINKING_END_TAG))] IN
            ThinkLoop([Emit(h2, build_content_block_stop(h2))
                         EXCEPT !.content_block_stop_sent = TRUE,
                                !.content_block_start_sent = FALSE,
                                !.in_think_block = FALSE])

OnInitialResponseEach(h) ==
  Emit(Emit(h, Sse("message_start", -1, "", <<>>, "")), Sse("ping", -1, "", <<>>, ""))

\* handle_stream, event_type == 'initial-response'
OnInitialResponse(h) ==
  IF ~h.message_start_sent
  THEN Emit([Emit(h, Sse("message_start", -1, "", <<>>, "")) EXCEPT !.message_start_sent = TRUE],
            Sse("ping", -1, "", <<>>, ""))
  ELSE h

\* handle_stream, event_type == 'assistantResponseEvent'
OnAssistantResponse(h, content) ==
  LET h1 == IF h.current_tool_use # "" /\ ~h.content_block_stop_sent
            THEN [Emit(h, build_content_block_stop(h))
                    EXCEPT !.content_block_stop_sent = TRUE, !.current_tool_use = ""]
            ELSE h IN
  IF content # <<>>
  THEN ThinkLoop([h1 EXCEPT !.think_buffer = @ \o content])
  ELSE h1

\* _handle_tool_use_event
OnToolUse(h, payload) ==
  LET h1 == IF payload.toolUseId # "" /\ h.current_tool_use = ""
            THEN LET c == IF h.content_block_start_sent /\ ~h.content_block_stop_sent
                          THEN [Emit(h, build_content_block_stop(h)) EXCEPT !.content_block_stop_sent = TRUE]
                          ELSE h
                     n == [c EXCEPT !.processed_tool_use_ids = @ \cup {payload.toolUseId},
                                    !.content_block_index = @ + 1] IN
                 [Emit(n, Sse("content_block_start", n.content_block_index, "tool_use", <<>>, payload.toolUseId))
                    EXCEPT !.content_block_started = TRUE,
                           !.current_tool_use = payload.toolUseId,
                           !.tool_input_buffer = <<>>]
            ELSE h
      h2 == IF h1.current_tool_use # "" /\ payload.input # <<>>
            THEN [Emit(h1, Sse("content_block_delta", h1.content_block_index, "input_json_delta", payload.input, ""))
                    EXCEPT !.tool_input_buffer = Append(@, payload.input)]
            ELSE h1 IN
  IF payload.stop /\ h2.current_tool_use # ""
  THEN [Emit(h2, build_content_block_stop(h2))
          EXCEPT !.content_block_stop_sent = FALSE,
                 !.content_block_started = FALSE,
                 !.content_block_start_sent = FALSE,
                 !.current_tool_use = "",
                 !.tool_input_buffer = <<>>]
  ELSE h2

StopReasonByTool(h) ==
  IF \E i \in 1..Len(h.out) : h.out[i].kind = "tool_use" THEN "tool_use" ELSE "end_turn"

\* the stop_reason of the closing message_delta
StopReason(h) == "end_turn"

\* handle_stream after the upstream iterator is exhausted
EndOfStream(h) ==
  LET h1 == IF h.content_block_started /\ ~h.content_block_stop_sent
            THEN [Emit(h, build_content_block_stop(h)) EXCEPT !.content_block_stop_sent = TRUE]
            ELSE h IN
  Emit(Emit(h1, Sse("message_delta", -1, StopReason(h1), <<>>, "")),
       Sse("message_stop", -1, "", <<>>, ""))

InitialResponseEvent ==
  /\ spc = "running" /\ nev < MaxEvents
  /\ sh' = OnInitialResponse(sh)
  /\ nev' = nev + 1
  /\ UNCHANGED <<spc, fed, ntool>>
  /\ UNCHANGED <<tmvars, stvars, pvars, bvars, fvars>>

AssistantResponseEvent(content) ==
  /\ spc = "running" /\ nev < MaxEvents
  /\ sh' = OnAssistantResponse(sh, content)
  /\ fed' = fed \o content
  /\ nev' = nev + 1
  /\ UNCHANGED <<spc, ntool>>
  /\ UNCHANGED <<tmvars, stvars, pvars, bvars, fvars>>

ToolUseEvent(payload) ==
  /\ spc = "running" /\ nev < MaxEvents
  /\ sh' = OnToolUse(sh, payload)
  /\ nev' = nev + 1
  /\ ntool' = ntool + 1
  /\ UNCHANGED <<spc, fed>>
  /\ UNCHANGED <<tmvars, stvars, pvars, bvars, fvars>>

\* the generator ends after the last record of the handler
StreamComplete(r) == [CloseAll(r) EXCEPT !.pc = "done", !.http = 200, !.body = "stream"]

StreamFailedReraise(r) == YieldErrorReraise(CloseAll(r))

\* `except Exception` and `finally` of handle_streaming_request_by_name
StreamFailed(r) == YieldError(CloseAll(r))

UpstreamEnds ==
  /\ spc = "running"
  /\ sh' = EndOfStream(sh)
  /\ spc' = "done"
  /\ task' = [u \in All |-> IF task[u].pc = "streaming" THEN StreamComplete(task[u]) ELSE task[u]]
  /\ UNCHANGED <<tokens, locks, profile_arns, now, nextTok>>
  /\ UNCHANGED <<fed, nev, ntool>>
  /\ UNCHANGED <<stvars, pvars, bvars, fvars>>

\* the upstream read or the translator fails: handle_stream logs and
\* re-raises; the streaming request that iterates it, if there is one,
\* catches the exception
UpstreamRaises ==
  /\ spc = "running"
  /\ spc' = "raised"
  /\ task' = [u \in All |-> IF task[u].pc = "streaming" THEN StreamFailed(task[u]) ELSE task[u]]
  /\ UNCHANGED <<tokens, locks, profile_arns, now, nextTok>>
  /\ UNCHANGED <<sh, fed, nev, ntool>>
  /\ UNCHANGED <<stvars, pvars, bvars, fvars>>

\* handle_streaming_request_by_name starts `async for sse_event in
\* handler.handle_stream(response.aiter_bytes())`
StartStream(t) ==
  /\ task[t].pc = "connected"
  /\ spc = "waiting"
  /\ spc' = "running"
  /\ task' = [task EXCEPT ![t].pc = "streaming"]
  /\ UNCHANGED <<tokens, locks, profile_arns, now, nextTok>>
  /\ UNCHANGED <<sh, fed, nev, ntool>>
  /\ UNCHANGED <<stvars, pvars, bvars, fvars>>

\* The inbound client disconnects: the request task is cancelled at the
\* await or yield it is suspended at.  CancelledError and GeneratorExit are
\* not Exceptions, so only `async with` and `finally` blocks run: the
\* account lock is released, and the finally block of
\* handle_streaming_request_by_name, once entered, closes response and
\* client.
Disconnect(t) ==
  /\ task[t].kind = "stream"
  /\ task[t].pc \in {"lock_wait", "oidc", "arn_wait", "post1", "post2", "connected", "streaming"}
  /\ LET r == task[t]
         in_finally == r.pc \in {"connected", "streaming"} IN
     /\ task' = [task EXCEPT ![t] =
          [(IF in_finally THEN CloseAll(r) ELSE r) EXCEPT !.pc = "cancelled", !.local = NoToken]]
     /\ locks' = IF r.pc = "oidc" THEN [locks EXCEPT ![r.acct] = "free"] ELSE locks
     /\ spc' = IF r.pc = "streaming" THEN "closed" ELSE spc
  /\ UNCHANGED <<tokens, profile_arns, now, nextTok>>
  /\ UNCHANGED <<sh, fed, nev, ntool>>
  /\ UNCHANGED <<stvars, pvars, bvars, fvars>>

\* the upstream events of a streaming request
ReqChunks == {<<"a">>, <<"a", "<", "t", "h">>}

ReqToolPayloads ==
  {[toolUseId |-> "t1", input |-> <<>>, stop |-> st] : st \in BOOLEAN}

\* one /v1/messages request of a stored account, streaming or not
StreamReqNext ==
  \/ \E t \in StoreTasks, k \in {"stream", "proxy"}, a \in Served : Arrive(t, k, a)
  \/ \E t \in StoreTasks : Acquire(t)
  \/ \E t \in StoreTasks, ok \in BOOLEAN, ei \in ExpiresIns : OidcResponse(t, ok, ei, TRUE)
  \/ \E t \in StoreTasks, ok \in BOOLEAN : ArnResponse(t, ok)
  \/ \E t \in StoreTasks, st \in UpstreamStatuses \cup {0} : Post1Response(t, st)
  \/ \E t \in StoreTasks, st \in UpstreamStatuses \cup {0} : Post2Response(t, st)
  \/ \E t \in StoreTasks : StartStream(t)
  \/ InitialResponseEvent
  \/ \E c \in ReqChunks : AssistantResponseEvent(c)
  \/ \E p \in ReqToolPayloads : ToolUseEvent(p)
  \/ UpstreamEnds
  \/ UpstreamRaises
  \/ \E t \in StoreTasks : Disconnect(t)

StreamNext ==
  \/ InitialResponseEvent
  \/ \E c \in Chunks : AssistantResponseEvent(c)
  \/ \E p \in ToolPayloads : ToolUseEvent(p)
  \/ UpstreamEnds
  \/ UpstreamRaises

\* ------------------------------------------------------------------------
\* Specifications
\* ------------------------------------------------------------------------
Init == ReqInit /\ StreamInit /\ StoreIdle /\ ParseIdle /\ BuildIdle /\ FileIdle

\* requests and admin actions against the running server
Spec == Init /\ [][TMNext]_vars

InitGet == TMInit /\ StreamInit /\ StoreIdle /\ ParseIdle /\ BuildIdle /\ FileIdle

\* concurrent direct callers of get_token_by_name
SpecGet == InitGet /\ [][GetNext]_vars

InitStream ==
  /\ TMInit /\ StreamInit /\ StoreIdle /\ ParseIdle /\ BuildIdle /\ FileIdle
  /\ \A a \in Accounts : tokens[a].exp = NoExpiry

\* token uploads of the admin during calls of get_token_by_name
SpecUpload == InitGet /\ [][UploadNext]_vars

\* the same, where the event loop runs every task that is ready and every
\* OIDC POST is answered or times out (timeout=30.0)
SpecUploadLive ==
  /\ SpecUpload
  /\ \A t \in Callers :
       /\ WF_vars(Acquire(t))
       /\ WF_vars(\E ok \in BOOLEAN, ei \in ExpiresIns : OidcResponse(t, ok, ei, TRUE))

\* one stream through the translator
SpecStream == InitStream /\ [][StreamNext]_vars

InitStore == StoreInit /\ StreamInit /\ ParseIdle /\ BuildIdle /\ FileIdle

\* the account store under admin operations and inbound requests
SpecStore == InitStore /\ [][StoreNext]_vars

\* the account store under calls of its operations
SpecAccounts == InitStore /\ [][AccountsNext]_vars

InitParse ==
  /\ TMInit /\ StreamInit /\ StoreIdle /\ ParseInit /\ BuildIdle /\ FileIdle
  /\ \A a \in Accounts : tokens[a].exp = NoExpiry

\* one call of the bulk decoder
SpecParse == InitParse /\ [][ParseNext]_vars

InitBuild ==
  /\ TMInit /\ StreamInit /\ StoreIdle /\ ParseIdle /\ BuildInit /\ FileIdle
  /\ \A a \in Accounts : tokens[a].exp = NoExpiry

\* one call of the request builder
SpecBuild == InitBuild /\ [][BuildNext]_vars

InitStreamReq ==
  /\ TMInit /\ StreamWaiting /\ StoreIdle /\ ParseIdle /\ BuildIdle /\ FileIdle
  /\ \A a \in Accounts \ Served : tokens[a].exp = NoExpiry

\* one request from its arrival to the end of its task
SpecStreamReq == InitStreamReq /\ [][StreamReqNext]_vars

InitFile ==
  /\ TMInit /\ StreamInit /\ StoreIdle /\ ParseIdle /\ BuildIdle /\ FileIdle
  /\ \A a \in Accounts : tokens[a].exp = NoExpiry

\* writes and reads of the data files, and process stops during a write
SpecFile == InitFile /\ [][FileNext]_vars

\* ========================================================================
\* Properties
\* ========================================================================

\* C1: for every account, at no time are two OIDC refresh POSTs of that
\* account in flight together, whatever proxy requests and admin actions
\* ("refresh now", "test account") interleave.
C1_SingleRefreshInFlight ==
  \A a \in Accounts : Cardinality(InFlight(a)) <= 1

\* the forced direct callers of account a
ForcedCallers(a) ==
  {t \in Callers : task[t].kind = "get" /\ task[t].acct = a /\ task[t].force /\ task[t].pc # "idle"}

\* C2: when N callers call GetToken(A, force=true) concurrently, exactly one
\* OIDC POST is issued in total and all N callers return the same new
\* access token.
C2_ForcedCallsCollapse ==
  \A a \in Accounts :
    ( /\ Cardinality(ForcedCallers(a)) >= 2
      /\ \A t \in ForcedCallers(a) : task[t].pc = "done" /\ task[t].conc /\ task[t].ret # 0 )
    => /\ Cardinality({t \in ForcedCallers(a) : task[t].posted}) = 1
       /\ \A t, u \in ForcedCallers(a) : task[t].ret = task[u].ret

\* the stored blob of account a expires more than five minutes ahead
StoredFresh(a) ==
  tokens[a].present /\ tokens[a].exp # NoExpiry /\ tokens[a].exp - now > BUFFER_MINUTES

\* C3: a caller of GetToken(A, force=false) that gets the mutex while the
\* stored blob expires more than 5 minutes ahead (the holder before it has
\* refreshed) issues no OIDC POST and returns the stored access token.
C3_WaitersReevaluate ==
  [][\A t \in Callers :
       ( /\ task[t].pc = "lock_wait" /\ ~task[t].force
         /\ task'[t].pc # "lock_wait"
         /\ StoredFresh(task[t].acct) )
       => /\ task'[t].pc = "done"
          /\ ~task'[t].posted
          /\ task'[t].ret = tokens[task[t].acct].access
          /\ nextTok' = nextTok /\ tokens' = tokens]_vars

\* a caller waited for the mutex while another caller refreshed the expired
\* token, then returned the refreshed token without a POST of its own
C3_Witness ==
  \E t, u \in Callers :
    /\ t # u /\ task[t].acct = task[u].acct
    /\ task[t].kind = "get" /\ task[u].kind = "get"
    /\ task[t].pc = "done" /\ task[u].pc = "done"
    /\ ~task[t].force /\ ~task[u].force
    /\ task[u].posted /\ task[u].ret >= 2
    /\ task[t].waited /\ ~task[t].posted /\ task[t].ret = task[u].ret

BlockEvents == {"content_block_start", "content_block_delta", "content_block_stop"}

\* C4: message_start, directly followed by ping, is emitted before any
\* content_block_start, content_block_delta or content_block_stop.
C4_MessageStartFirst ==
  \A i \in 1..Len(sh.out) :
    sh.out[i].ev \in BlockEvents =>
      \E j \in 1..(i - 2) : sh.out[j].ev = "message_start" /\ sh.out[j + 1].ev = "ping"

\* position of the first content_block_start or message_delta after i
NextBoundary(out, i) ==
  LET later == {j \in (i + 1)..Len(out) : out[j].ev \in {"content_block_start", "message_delta"}} IN
  IF later = {} THEN Len(out) + 1 ELSE SetMin(later)

StopsOf(out, k, from, to) ==
  {m \in from..to : out[m].ev = "content_block_stop" /\ out[m].index = k}

\* C5: every content_block_start(i) is followed by exactly one
\* content_block_stop(i), emitted before the next content_block_start and
\* before message_delta.
C5_BlocksBalanced ==
  \A i \in 1..Len(sh.out) :
    sh.out[i].ev = "content_block_start" =>
      LET k == sh.out[i].index
          nb == NextBoundary(sh.out, i) IN
      /\ Cardinality(StopsOf(sh.out, k, i + 1, Len(sh.out))) <= 1
      /\ nb <= Len(sh.out) => Cardinality(StopsOf(sh.out, k, i + 1, nb - 1)) = 1

Positions(out, ev) == {i \in 1..Len(out) : out[i].ev = ev}

\* C6: a stream whose upstream ends without an exception ends with exactly
\* one message_delta (stop_reason end_turn) followed by exactly one
\* message_stop, which is the last record; neither appears earlier.
C6_StreamTermination ==
  LET out == sh.out
      n == Len(out) IN
  /\ spc = "done" =>
       /\ n >= 2
       /\ out[n].ev = "message_stop"
       /\ out[n - 1].ev = "message_delta" /\ out[n - 1].kind = "end_turn"
       /\ Positions(out, "message_delta") = {n - 1}
       /\ Positions(out, "message_stop") = {n}
  /\ spc # "done" =>
       Positions(out, "message_delta") \cup Positions(out, "message_stop") = {}

\* a finished stream that contained a text block and a tool_use block
C6_Witness ==
  /\ spc = "done"
  /\ \E i, j \in 1..Len(sh.out) :
       /\ sh.out[i].ev = "content_block_start" /\ sh.out[i].kind = "tool_use"
       /\ sh.out[j].ev = "content_block_start" /\ sh.out[j].kind = "text"
  /\ sh.out[Len(sh.out)].ev = "message_stop"

RECURSIVE DeltaText(_, _, _)
\* concatenation of the texts of the first n records that are deltas of kind
DeltaText(out, kind, n) ==
  IF n = 0 THEN <<>>
  ELSE DeltaText(out, kind, n - 1) \o
       (IF out[n].ev = "content_block_delta" /\ out[n].kind = kind THEN out[n].text ELSE <<>>)

HasTag(text) == Find(text, THINKING_START_TAG) # -1 \/ Find(text, THINKING_END_TAG) # -1

\* C7: for upstream text without "<thinking>", however it is split into
\* chunks, the text_delta texts concatenate to the text and no thinking
\* block is emitted.
C7_PlainTextPassesThrough ==
  (spc = "done" /\ ntool = 0 /\ Find(fed, THINKING_START_TAG) = -1) =>
    /\ DeltaText(sh.out, "text_delta", Len(sh.out)) = fed
    /\ \A i \in 1..Len(sh.out) : sh.out[i].kind # "thinking"

DeltaKindOf(block_kind) ==
  CASE block_kind = "text" -> "text_delta"
    [] block_kind = "thinking" -> "thinking_delta"
    [] OTHER -> "input_json_delta"

RECURSIVE BlocksOf(_, _)
\* the content blocks of the first n records: kind, index, concatenated
\* delta text, whether closed, and whether a delta or stop was misplaced
BlocksOf(out, n) ==
  IF n = 0 THEN <<>>
  ELSE LET b == BlocksOf(out, n - 1)
           e == out[n]
           stray == <<[kind |-> "none", index |-> e.index, text |-> e.text, closed |-> FALSE, bad |-> TRUE]>> IN
       CASE e.ev = "content_block_start" ->
              Append(b, [kind |-> e.kind, index |-> e.index, text |-> <<>>, closed |-> FALSE, bad |-> FALSE])
         [] e.ev = "content_block_delta" ->
              IF b = <<>> THEN stray
              ELSE [b EXCEPT ![Len(b)].text = @ \o e.text,
                             ![Len(b)].bad = @ \/ b[Len(b)].closed \/ e.index # b[Len(b)].index
                                               \/ e.kind # DeltaKindOf(b[Len(b)].kind)]
         [] e.ev = "content_block_stop" ->
              IF b = <<>> THEN stray
              ELSE [b EXCEPT ![Len(b)].closed = TRUE,
                             ![Len(b)].bad = @ \/ b[Len(b)].closed \/ e.index # b[Len(b)].index]
         [] OTHER -> b

Block(kind, index, text) ==
  [kind |-> kind, index |-> index, text |-> text, closed |-> TRUE, bad |-> FALSE]

\* the blocks expected for P <thinking> Q </thinking> R: empty P or R opens
\* no block
ExpectedBlocks(P, Q, R) ==
  LET first == IF P # <<>> THEN <<Block("text", 0, P)>> ELSE <<>>
      second == Append(first, Block("thinking", Len(first), Q)) IN
  IF R # <<>> THEN Append(second, Block("text", Len(second), R)) ELSE second

\* C8: for upstream text P + "<thinking>" + Q + "</thinking>" + R, however
\* it is split into chunks, the emitted blocks are a text block with P, a
\* thinking block with Q and a text block with R, with consecutive indices.
C8_ThinkingSpliced ==
  LET ts == Find(fed, THINKING_START_TAG)
      rest == Drop(fed, ts + Len(THINKING_START_TAG))
      te == Find(rest, THINKING_END_TAG)
      P == Take(fed, ts)
      Q == Take(rest, te)
      R == Drop(rest, te + Len(THINKING_END_TAG)) IN
  ( /\ spc = "done" /\ ntool = 0
    /\ ts # -1 /\ te # -1
    /\ ~HasTag(P) /\ ~HasTag(Q) /\ ~HasTag(R) )
  => BlocksOf(sh.out, Len(sh.out)) = ExpectedBlocks(P, Q, R)

ProxyTasks == {t \in Tasks : task[t].kind \in {"proxy", "test"} /\ task[t].posts # <<>>}

C11_UniqueEnabledKeys ==
  \A i, j \in 1..Len(accounts) :
    (i # j /\ accounts[i].enabled /\ accounts[j].enabled)
      => accounts[i].api_key # accounts[j].api_key

\* C12: once an account's token blob is gone (delete_account removed it),
\* it becomes readable again only by an admin saving a token for an
\* existing account of that name; a refresh that completes after the
\* deletion does not bring it back.
C12_NoBlobAfterDelete ==
  [][\A a \in Accounts :
       (~tokens[a].present /\ tokens'[a].present)
         => (Position(accounts, a) # 0 /\ \E e \in InitExpiries : SaveToken(a, e))]_vars

\* C13: a disabled account is never returned by get_account_by_api_key for
\* any key, the listing still contains it, and toggling it back to enabled
\* makes its api_key resolve to it.
C13_DisabledInvisible ==
  [][/\ \A i \in 1..Len(accounts') :
          ~accounts'[i].enabled =>
            /\ \A k \in RequestKeys : get_account_by_api_key(accounts', k) # accounts'[i]
            /\ accounts'[i] \in Storage_list_accounts(accounts')
     /\ \A n \in Accounts :
          LET i == Position(accounts, n) IN
          (i # 0 /\ ~accounts[i].enabled /\ ToggleAccount(n))
            => get_account_by_api_key(accounts', accounts[i].api_key).name = n]_vars

KeyMatches(key) ==
  \/ \E i \in 1..Len(accounts) : accounts[i].api_key = key /\ accounts[i].enabled
  \/ \E c \in ConfigAccounts : c.api_key = key

\* C14: a request whose API key is missing or matches neither an enabled
\* stored account nor a config account ends with 401, whatever its body,
\* and reads or refreshes no token, discovers no profile and posts nothing
\* upstream.
C14_UnknownKeyRejected ==
  [][\A t \in Tasks :
       (task[t].pc = "idle" /\ task'[t].pc # "idle") =>
         \A key \in RequestKeys, b \in BOOLEAN, s \in BOOLEAN :
           (MessagesEndpoint(t, key, b, s) /\ (key = "" \/ ~KeyMatches(key)))
             => /\ task'[t].pc = "done" /\ task'[t].http = 401
                /\ task'[t].posts = <<>> /\ ~task'[t].posted /\ task'[t].ret = 0
                /\ UNCHANGED <<tokens, locks, profile_arns, nextTok>>]_vars

\* a request was rejected with 401 while the store holds a disabled account
\* with a readable token
C14_Witness ==
  /\ task["t1"].pc = "done" /\ task["t1"].http = 401
  /\ \E i \in 1..Len(accounts) : ~accounts[i].enabled /\ tokens[accounts[i].name].present

\* ------------------------------------------------------------------------
\* The bulk decoder
\* ------------------------------------------------------------------------
\* payloads that are a JSON object, and payloads that are not UTF-8 JSON
ObjectPayloads == {<<1>>, <<2>>, <<3>>, <<4>>, <<5>>, <<6>>, VENT \o <<1>>}

MalformedPayloads == {<<120>>, <<255>>, <<>>}

RECURSIVE FrameStart(_, _)
\* offset of the j-th frame of fs in the encoded input
FrameStart(fs, j) == IF j = 1 THEN 0 ELSE FrameStart(fs, j - 1) + FrameLen(fs[j - 1])

TailStart == Len(data) - Len(pin.tail)

AllObjects == \A j \in 1..Len(pin.frames) : pin.frames[j].payload \in ObjectPayloads

ExpectedNames(payload) ==
  CASE payload \in {<<1>>, VENT \o <<1>>, <<3>>} -> <<"content_block_delta">>
    [] payload = <<2>> -> <<"content_block_start">>
    [] payload = <<4>> -> <<"content_block_stop", "message_delta">>
    [] payload = <<5>> -> <<"content_block_stop">>
    [] OTHER -> <<>>

RECURSIVE ExpectedEvents(_, _)
\* name and frame offset of the events of the first n frames of fs
ExpectedEvents(fs, n) ==
  IF n = 0 THEN <<>>
  ELSE ExpectedEvents(fs, n - 1) \o
       [i \in 1..Len(ExpectedNames(fs[n].payload)) |->
          [event |-> ExpectedNames(fs[n].payload)[i], at |-> FrameStart(fs, n)]]

Decoded == [i \in 1..Len(events) |-> [event |-> events[i].event, at |-> events[i].at]]

C16_MalformedFrameSkipped ==
  ( /\ ppc # "running"
    /\ \A j \in 1..Len(pin.frames) :
         pin.frames[j].payload \in ObjectPayloads \cup MalformedPayloads
    /\ \E j \in 1..Len(pin.frames) : pin.frames[j].payload \in MalformedPayloads )
  => /\ ppc = "returned"
     /\ offset = TailStart
     /\ Decoded = ExpectedEvents(pin.frames, Len(pin.frames))

\* a malformed frame was followed by a text frame, which was decoded
C16_Witness ==
  /\ ppc = "returned"
  /\ Len(pin.frames) = 2
  /\ pin.frames[1].payload \in MalformedPayloads
  /\ pin.frames[2].payload = <<1>>
  /\ Len(events) = 1 /\ events[1].at = FrameLen(pin.frames[1])

\* ------------------------------------------------------------------------
\* Expiry margin, refresh failure, refresh frame, idempotence
\* ------------------------------------------------------------------------
\* C17: a non-forced call returns the stored blob without an OIDC POST
\* exactly when expires_at - now > 5 minutes; at 5 minutes or less, or
\* without a readable expires_at, it refreshes.
C17_ExpiryMargin ==
  [][\A t \in Callers :
       (task[t].pc = "lock_wait" /\ ~task[t].force /\ Acquire(t)) =>
         LET blob == tokens[task[t].acct] IN
         IF blob.exp # NoExpiry /\ blob.exp - now > BUFFER_MINUTES
         THEN task'[t].pc = "done" /\ task'[t].ret = blob.access /\ ~task'[t].posted
         ELSE task'[t].pc = "oidc" /\ task'[t].posted]_vars

\* C18: when the OIDC endpoint answers with a status other than 200, or
\* the POST fails in transport, the call ends with an error, returns no
\* token and leaves the stored blob as it was.
C18_FailedRefreshKeepsBlob ==
  [][\A t \in Callers :
       task[t].pc = "oidc" =>
         \A ei \in ExpiresIns, hr \in BOOLEAN :
           OidcResponse(t, FALSE, ei, hr) =>
             /\ tokens' = tokens
             /\ task'[t].pc = "done" /\ task'[t].body = "exception"
             /\ task'[t].ret = 0 /\ task'[t].tok = 0]_vars

\* a refresh failed and the blob written at start-up is still stored
C18_Witness ==
  \E t \in Callers :
    /\ task[t].pc = "done" /\ task[t].posted /\ task[t].body = "exception"
    /\ tokens[task[t].acct].access = 1

\* C19: a successful refresh changes only access_token, expires_at and,
\* when the answer carries one, refresh_token; the client registration
\* fields, and refresh_token when the answer omits it, stay; the new blob
\* is stored when the call returns.
C19_RefreshFrame ==
  [][\A t \in Callers :
       task[t].pc = "oidc" =>
         \A ei \in ExpiresIns, hr \in BOOLEAN :
           OidcResponse(t, TRUE, ei, hr) =>
             LET old == tokens[task[t].acct]
                 new == tokens'[task[t].acct] IN
             /\ new.present /\ new.creds = old.creds
             /\ ~hr => new.refresh = old.refresh
             /\ hr => new.refresh = nextTok
             /\ new.access = nextTok /\ new.exp = now + ei
             /\ task'[t].pc = "done" /\ task'[t].ret = new.access
             /\ \A b \in Accounts \ {task[t].acct} : tokens'[b] = tokens[b]]_vars

\* a refresh whose answer had no refreshToken has been stored
C19_Witness ==
  \E t \in Callers :
    /\ task[t].pc = "done" /\ task[t].posted /\ task[t].ret >= 2
    /\ tokens[task[t].acct].access = task[t].ret
    /\ tokens[task[t].acct].refresh = 1 /\ tokens[task[t].acct].creds

\* an earlier non-forced call on the account of t that returned the token
\* now stored, without refreshing, at the present time
Preceding(t) ==
  {u \in Callers \ {t} :
     /\ task[u].acct = task[t].acct /\ task[u].pc = "done" /\ ~task[u].force
     /\ ~task[u].posted /\ task[u].ret # 0
     /\ task[u].ret = tokens[task[t].acct].access /\ task[u].at = now}

IsToolStop(payload) ==
  LET dec == DecodePayload(payload) IN
  /\ dec.err = "none"
  /\ dec.doc \in JsonObjects
  /\ ParsedEvent(dec.doc).tool_use_id # ""
  /\ ParsedEvent(dec.doc).name # ""
  /\ ParsedEvent(dec.doc).stop

\* C22: the stop_reason of a batch response is "tool_use" if and only if
\* some decoded frame ended a tool-use block (toolUseId and name present,
\* stop true); otherwise it is "end_turn".
C22_StopReasonIffToolStop ==
  ppc = "returned" =>
    response.stop_reason =
      IF \E j \in 1..Len(pin.frames) : IsToolStop(pin.frames[j].payload)
      THEN "tool_use" ELSE "end_turn"

\* a text frame and then a tool-use stop frame were collected
C22_Witness ==
  /\ ppc = "returned"
  /\ Len(pin.frames) = 2
  /\ pin.frames[1].payload = <<1>>
  /\ pin.frames[2].payload = <<4>>
  /\ response.stop_reason = "tool_use"

\* StreamHandler._count_tokens without tiktoken: max(1, len(text) // 4),
\* and 0 for the empty text
count_tokens(text) == IF Len(text) = 0 THEN 0 ELSE SetMax({1, Len(text) \div 4})

\* C23: usage.output_tokens of a batch response is the token count of its
\* aggregated text, so it is positive whenever that text is not empty.
C23_OutputTokensCounted ==
  ppc = "returned" =>
    /\ response.output_tokens = count_tokens(response.current_text)
    /\ response.current_text # <<>> => response.output_tokens > 0

\* ------------------------------------------------------------------------
\* The upstream request
\* ------------------------------------------------------------------------
\* the history records made of the messages (after those of the system
\* prompt)
Turns == SelectSeq(bout.history, LAMBDA h : h.from # 0)

\* C24: for every inbound message list the history strictly alternates
\* userInputMessage and assistantResponseMessage records starting with a
\* userInputMessage, each assistant record directly follows the record of
\* the user message it answers, assistant messages not directly preceded by
\* a user message are skipped, and the last message is not in the history.
C24_HistoryAlternates ==
  bpc = "built" =>
    LET ms == breq.messages IN
    /\ \A k \in 1..Len(bout.history) :
         bout.history[k].kind =
           IF k % 2 = 1 THEN "userInputMessage" ELSE "assistantResponseMessage"
    /\ \A k \in 1..Len(Turns) :
         /\ Turns[k].from < Len(ms)
         /\ Turns[k].kind = "assistantResponseMessage" =>
              /\ ms[Turns[k].from].role = "assistant"
              /\ k > 1
              /\ Turns[k - 1].from = Turns[k].from - 1
              /\ Turns[k - 1].kind = "userInputMessage"
    /\ \A i \in 1..(Len(ms) - 1) :
         (ms[i].role = "assistant" /\ (i = 1 \/ ms[i - 1].role # "user")) =>
           \A k \in 1..Len(Turns) : Turns[k].from # i

\* C25: the text extracted from a content value, whether a string or a list
\* of text, tool_result and other blocks, is never empty: the placeholder
\* stands in for an empty text.
C25_ContentNeverEmpty ==
  bpc = "built" =>
    /\ bout.content # <<>>
    /\ \A k \in 1..Len(Turns) : Turns[k].content # <<>>

\* C29: every upstream POST made for the account bound to the inbound key
\* carries, as profileArn, the ARN that profile discovery returned for that
\* account, never the value of another account and never a missing one:
\* the request that proxy_request_by_name builds from the discovered ARN
\* exists and has that ARN as its profileArn.
C29_RequestCarriesDiscoveredArn ==
  (bpc \notin {"idle", "called"} /\ breq.account.type = "str" /\ breq.messages # <<>>) =>
    /\ bpc = "built"
    /\ bout.profileArn = breq.account.val

\* ------------------------------------------------------------------------
\* The streaming request
\* ------------------------------------------------------------------------
\* C26: once an SSE record has been emitted, a failure of the upstream read
\* or of the translator does not leave the generator as an exception:
\* exactly one `error` record is yielded, the generator returns normally,
\* and nothing is emitted after an `error` record.
C26_StreamErrorIsOneRecord ==
  [][\A t \in StoreTasks :
       /\ (task[t].pc = "streaming" /\ spc = "running" /\ spc' = "raised" /\ sh.out # <<>>) =>
            /\ task'[t].pc = "done"
            /\ task'[t].body = "error_event"
            /\ task'[t].http = 200
            /\ task'[t].errs = 1
       /\ task[t].errs > 0 =>
            /\ sh'.out = sh.out
            /\ task'[t].errs = task[t].errs
            /\ task'[t].pc = "done"]_vars

\* the upstream read failed after records had been forwarded, and the
\* request ended with one `error` record
C26_Witness ==
  /\ spc = "raised"
  /\ Len(sh.out) >= 2
  /\ task["t1"].pc = "done" /\ task["t1"].errs = 1 /\ task["t1"].body = "error_event"

C28_CrashAtomicWrites ==
  /\ seen.state = "complete"
  /\ wfile = NoFile => \A f \in Files : files[f].state = "complete"

\* ------------------------------------------------------------------------
\* Tool use in the stream translator
\* ------------------------------------------------------------------------
\* positions of the content_block_start records that no later
\* content_block_stop of the same index closes
OpenStarts(out) ==
  {i \in 1..Len(out) :
     /\ out[i].ev = "content_block_start"
     /\ ~\E j \in (i + 1)..Len(out) :
           out[j].ev = "content_block_stop" /\ out[j].index = out[i].index}

\* the highest block index used so far (-1: none)
PrevIndex(out) ==
  SetMax({-1} \cup {out[i].index : i \in {j \in 1..Len(out) : out[j].ev = "content_block_start"}})

\* the index of the last tool_use block that was started
ToolIndex(out) ==
  LET starts == {i \in 1..Len(out) : out[i].ev = "content_block_start" /\ out[i].kind = "tool_use"} IN
  IF starts = {} THEN -1 ELSE out[SetMax(starts)].index

\* the records after the last tool_use start are its input_json_deltas:
\* nothing but the events of the tool-use sequence has been translated
\* since its Start
InSequence(out) ==
  LET starts == {i \in 1..Len(out) : out[i].ev = "content_block_start" /\ out[i].kind = "tool_use"} IN
  /\ starts # {}
  /\ \A j \in (SetMax(starts) + 1)..Len(out) : out[j].kind = "input_json_delta"

IsToolStart(p) == p.toolUseId # "" /\ p.input = <<>> /\ ~p.stop

IsToolFragment(p) == p.toolUseId # "" /\ p.input # <<>> /\ ~p.stop

IsToolStopEvent(p) == p.toolUseId # "" /\ p.input = <<>> /\ p.stop

\* C30: for a tool-use sequence Start, Fragment*, Stop of one toolUseId
\* that arrives while no tool is active (no block, a text block or a
\* thinking block open), the translator closes the open block, emits
\* content_block_start(k, tool_use, id) with k one higher than the previous
\* index, one input_json_delta at index k per fragment, carrying the
\* fragment, then content_block_stop(k), after which no tool is active.
C30_ToolUseSequence ==
  [][\A p \in ToolPayloads :
       ToolUseEvent(p) =>
         LET new == SubSeq(sh'.out, Len(sh.out) + 1, Len(sh'.out))
             open == OpenStarts(sh.out) IN
         /\ (IsToolStart(p) /\ sh.current_tool_use = "") =>
              /\ new = (IF open = {} THEN <<>>
                        ELSE <<Sse("content_block_stop", sh.out[SetMax(open)].index, "", <<>>, "")>>)
                       \o <<Sse("content_block_start", PrevIndex(sh.out) + 1, "tool_use", <<>>, p.toolUseId)>>
              /\ Cardinality(open) <= 1
              /\ sh'.current_tool_use = p.toolUseId
         /\ (IsToolFragment(p) /\ sh.current_tool_use = p.toolUseId /\ InSequence(sh.out)) =>
              /\ new = <<Sse("content_block_delta", ToolIndex(sh.out), "input_json_delta", p.input, "")>>
              /\ sh'.tool_input_buffer = Append(sh.tool_input_buffer, p.input)
              /\ sh'.current_tool_use = p.toolUseId
         /\ (IsToolStopEvent(p) /\ sh.current_tool_use = p.toolUseId /\ InSequence(sh.out)) =>
              /\ new = <<Sse("content_block_stop", ToolIndex(sh.out), "", <<>>, "")>>
              /\ OpenStarts(sh'.out) = {}
              /\ sh'.current_tool_use = ""]_vars

\* a tool-use sequence with one fragment arrived while a text block was
\* open: the text block was closed, the tool block opened, fed and closed
C30_Witness ==
  /\ Len(sh.out) = 6
  /\ sh.out[2].kind = "text_delta"
  /\ sh.out[3].ev = "content_block_stop" /\ sh.out[3].index = 0
  /\ sh.out[4].ev = "content_block_start" /\ sh.out[4].kind = "tool_use" /\ sh.out[4].index = 1
  /\ sh.out[5].kind = "input_json_delta" /\ sh.out[5].index = 1
  /\ sh.out[6].ev = "content_block_stop" /\ sh.out[6].index = 1
  /\ sh.current_tool_use = ""
\* ------------------------------------------------------------------------
\* C31: when the first upstream POST was answered 401 or 403 and the forced
\* refresh that follows fails, the request ends there with its one POST:
\* a non-streaming request is answered HTTP 500, a streaming request yields
\* exactly one `error` record and its generator ends.
\* A forced call always refreshes, so it fails when it leaves
\* get_token_by_name (other than by cancellation) with the stored blob as it
\* was.
C31_FailedForcedRefresh ==
  [][\A t \in StoreTasks :
       LET r == task[t]
           q == task'[t] IN
       (/\ r.site = "retry" /\ r.pc \in {"lock_wait", "oidc"}
        /\ q.pc \notin {"lock_wait", "oidc", "cancelled"}
        /\ tokens'[r.acct] = tokens[r.acct])
       => /\ r.posts[1].status \in AuthStatuses
          /\ q.pc = "done"
          /\ q.posts = r.posts /\ Len(q.posts) = 1
          /\ IF r.kind = "stream"
             THEN q.errs = 1 /\ q.body = "error_event"
             ELSE q.http = 500]_vars

\* a streaming request has ended with one error record after its forced
\* refresh failed
C31_Witness ==
  \E t \in StoreTasks :
    /\ task[t].kind = "stream" /\ task[t].pc = "done" /\ task[t].site = "retry"
    /\ Len(task[t].posts) = 1 /\ task[t].posts[1].status \in AuthStatuses
    /\ task[t].errs = 1

\* ------------------------------------------------------------------------
\* C32: the names of the stored accounts are pairwise distinct (the store
\* starts empty, so it is enough that every step leaves them so), and
\* update_account changes neither the name nor the created_at of any
\* stored account, whatever the update dict holds.
C32_NamesDistinctAndImmutable ==
  [][/\ \A i, j \in 1..Len(accounts') : accounts'[i].name = accounts'[j].name => i = j
     /\ \A n \in Accounts :
          (\E upd \in Updates \cup [name : Accounts, api_key : Keys \cup {"keep"},
                                     enabled : {"keep", "on", "off"}, created_at : {9}] :
              UpdateAccount(n, upd))
          => /\ Len(accounts') = Len(accounts)
             /\ \A i \in 1..Len(accounts) :
                  /\ accounts'[i].name = accounts[i].name
                  /\ accounts'[i].created_at = accounts[i].created_at]_vars

\* two stored accounts, one of them updated after it was created
C32_Witness ==
  /\ Len(accounts) = 2
  /\ \E i \in 1..2 : accounts[i].updated_at > accounts[i].created_at

\* ------------------------------------------------------------------------
\* C33: every content_block_delta is emitted while a block with its index
\* is open (started and not yet stopped), and its kind is the one of that
\* block: text_delta in a text block, thinking_delta in a thinking block,
\* input_json_delta in a tool_use block.
C33_DeltaInsideMatchingBlock ==
  \A i \in 1..Len(sh.out) :
    sh.out[i].ev = "content_block_delta" =>
      \E j \in 1..(i - 1) :
        /\ sh.out[j].ev = "content_block_start"
        /\ sh.out[j].index = sh.out[i].index
        /\ StopsOf(sh.out, sh.out[i].index, j + 1, i - 1) = {}
        /\ sh.out[i].kind = DeltaKindOf(sh.out[j].kind)

\* ------------------------------------------------------------------------
\* C34: the k-th content_block_start carries index k - 1, whatever the
\* kinds of the blocks, and every content_block_stop carries the index of
\* the content_block_start emitted last before it.
C34_BlockIndicesCount ==
  LET out == sh.out
      starts == Positions(out, "content_block_start") IN
  \A i \in 1..Len(out) :
    /\ out[i].ev = "content_block_start" =>
         out[i].index = Cardinality({j \in starts : j <= i}) - 1
    /\ out[i].ev = "content_block_stop" =>
         /\ {j \in starts : j < i} # {}
         /\ out[i].index = out[SetMax({j \in starts : j < i})].index

\* a stream with a text, a thinking and a tool_use block, all three stopped
C34_Witness ==
  /\ \A k \in {"text", "thinking", "tool_use"} :
       \E i \in Positions(sh.out, "content_block_start") : sh.out[i].kind = k
  /\ Cardinality(Positions(sh.out, "content_block_stop")) >= 3

\* ------------------------------------------------------------------------
\* C35: within one stream no two tool_use content blocks are opened for the
\* same toolUseId.
C35_OneBlockPerToolUseId ==
  \A i, j \in Positions(sh.out, "content_block_start") :
    (/\ sh.out[i].kind = "tool_use" /\ sh.out[j].kind = "tool_use"
     /\ sh.out[i].id = sh.out[j].id)
    => i = j

\* ------------------------------------------------------------------------
\* C36: a stream has at most one message_start and at most one ping,
\* however many initial-response events arrive, and a ping directly
\* follows message_start.
C36_OneMessageStartAndPing ==
  /\ Cardinality(Positions(sh.out, "message_start")) <= 1
  /\ Cardinality(Positions(sh.out, "ping")) <= 1
  /\ \A i \in Positions(sh.out, "ping") : i > 1 /\ sh.out[i - 1].ev = "message_start"

\* message_start and ping were emitted in a stream of three or more events
\* that produced nothing else
C36_Witness ==
  /\ nev >= 3
  /\ Len(sh.out) = 2
  /\ sh.out[1].ev = "message_start" /\ sh.out[2].ev = "ping"

\* ------------------------------------------------------------------------
\* C37: when the upstream ends inside a thinking block whose closing tag
\* never came, all the text received after the opening tag has gone out in
\* thinking_delta records before the last content_block_stop, a trailing
\* proper prefix of the closing tag included.
C37_ThinkingTextFlushed ==
  LET ts == Find(fed, THINKING_START_TAG)
      Q == Drop(fed, ts + Len(THINKING_START_TAG))
      stops == Positions(sh.out, "content_block_stop")
      emitted == IF stops = {} THEN <<>>
                 ELSE DeltaText(sh.out, "thinking_delta", SetMax(stops)) IN
  (/\ spc = "done" /\ sh.in_think_block
   /\ ts # -1 /\ Find(Q, THINKING_END_TAG) = -1)
  => /\ Len(emitted) >= Len(Q)
     /\ SubSeq(emitted, Len(emitted) - Len(Q) + 1, Len(emitted)) = Q

\* ------------------------------------------------------------------------
\* C38: every turn of the decoding loop either ends the decoding or moves
\* the offset forward, by at least one byte and not past the end of the
\* input; so the loop ends on every input, also where the total or header
\* length is zero, below 16 or inconsistent.
C38_DecoderAdvances ==
  [][ParseFrame =>
       \/ ppc' # "running"
       \/ offset' > offset /\ offset' <= Len(data)]_vars

\* two frames were decoded and the decoding ended at a tail whose total
\* length field is zero
C38_Witness ==
  /\ ppc = "returned"
  /\ Len(pin.frames) = 2 /\ Len(pin.tail) = 20
  /\ UnpackU32(pin.tail, 0) = 0
  /\ offset = Len(data) - Len(pin.tail) /\ offset > 0

\* ------------------------------------------------------------------------
\* C39: when a refresh ends and the stored blob of its account is no longer
\* the one the refresh was started from (the admin has saved another one
\* during the OIDC POST), the stored blob stays as the admin saved it.
C39_UploadSurvivesRefresh ==
  [][\A t \in Callers :
       LET r == task[t] IN
       (/\ r.pc = "oidc" /\ task'[t].pc # "oidc"
        /\ tokens[r.acct].present /\ tokens[r.acct] # r.local)
       => tokens'[r.acct] = tokens[r.acct]]_vars

\* ------------------------------------------------------------------------
\* C40: when every OIDC POST is answered or times out, every call of
\* get_token_by_name returns, with a token or with an error: no caller
\* stays blocked on the account lock, whatever happened to the refreshes
\* of the callers before it.
C40_GetTokenReturns ==
  \A t \in Callers :
    (task[t].pc \in {"lock_wait", "oidc"}) ~> (task[t].pc = "done")

\* a caller's refresh has failed, and a caller that had waited for the lock
\* meanwhile has returned
C40_Witness ==
  \E t, u \in Callers :
    /\ t # u /\ task[t].acct = task[u].acct
    /\ task[u].pc = "done" /\ task[u].posted /\ task[u].ret = 0
    /\ task[t].pc = "done" /\ task[t].waited /\ task[t].ret # 0

====
